---- MODULE Spec2Model ----
(***************************************************************************)
(* Offline caching subsystem of the recipe app: the service worker        *)
(* (src/unnamed/part_002) with its three named caches, its request         *)
(* dispatcher and its four caching strategies, and the page-side cache     *)
(* hydrator (src/client/src/lib/cache.ts).                                 *)
(*                                                                         *)
(* Every await of the source is a point where another task may run.  A     *)
(* strategy call, with the cache.put and the limitCacheSize it starts but  *)
(* does not await, occupies one slot of `tasks`; the background put and    *)
(* each read/delete of limitCacheSize are separate steps.                  *)
(***************************************************************************)
EXTENDS Integers, Sequences, FiniteSets, TLC

\* ------------------------------------------------------------------------
\* Bounds of the model
\* ------------------------------------------------------------------------
\* Number of requests (with their background work) that can be in flight.
MaxTasks == 2

\* Number of requests and hydrator calls of one run, when they overlap ...
MaxArrivals == 2

\* ... and when each arrives after the one before it has finished.
MaxSoloArrivals == 3

\* Number of messages the worker receives in one run.
MaxMessages == 2

\* Number of favorites functions that can be running.
MaxOps == 2

\* Number of calls of favorites functions in one run.
MaxCalls == 2

\* The latest time Date.now() returns.
MaxClock == 3

\* Number of returned favorites calls that `log` remembers.
MaxLog == 2

\* ------------------------------------------------------------------------
\* Cache configuration (part_002 lines 12-29)
\* ------------------------------------------------------------------------
STATIC_CACHE == "recipe-app-static-v1"

DYNAMIC_CACHE == "recipe-app-dynamic-v1"

IMAGE_CACHE == "recipe-app-images-v1"

\* caches of the version before this one
StaleDynamic == "recipe-app-dynamic-v0"

StaleImages == "recipe-app-images-v0"

HydratorCachesOfOldVersion == [images |-> StaleImages, dynamic |-> StaleDynamic]

\* IMAGE_CACHE and DYNAMIC_CACHE of the hydrator, cache.ts lines 9-10
HydratorCaches ==
    [images |-> "recipe-app-images-v1", dynamic |-> "recipe-app-dynamic-v1"]

MAX_DYNAMIC_CACHE_SIZE == 50

MAX_IMAGE_CACHE_SIZE == 100

\* ------------------------------------------------------------------------
\* Strings.  A string the code inspects (startsWith, endsWith, includes) is
\* the tuple of its characters.
\* ------------------------------------------------------------------------
startsWith(s, p) ==
    /\ Len(p) <= Len(s)
    /\ SubSeq(s, 1, Len(p)) = p

endsWith(s, p) ==
    /\ Len(p) <= Len(s)
    /\ SubSeq(s, Len(s) - Len(p) + 1, Len(s)) = p

includes(s, p) ==
    \E i \in 1..(Len(s) - Len(p) + 1) : SubSeq(s, i, i + Len(p) - 1) = p

Http == <<"h","t","t","p">>

ApiPrefix == <<"/","a","p","i","/">>

MealDbHost == <<"t","h","e","m","e","a","l","d","b",".","c","o","m">>

ImagesPath == <<"/","i","m","a","g","e","s","/">>

staticExtensions ==
    { <<".","j","s">>, <<".","c","s","s">>, <<".","s","v","g">>,
      <<".","p","n","g">>, <<".","j","p","g">>, <<".","j","p","e","g">>,
      <<".","g","i","f">>, <<".","w","e","b","p">>, <<".","w","o","f","f">>,
      <<".","w","o","f","f","2">> }

\* ------------------------------------------------------------------------
\* URLs.  A URL is named by a number, which is also its cache key; UrlOf
\* gives what `new URL(request.url)` yields for it.
\* ------------------------------------------------------------------------
Https == <<"h","t","t","p","s",":">>

HttpPlain == <<"h","t","t","p",":">>

ChromeExt == <<"c","h","r","o","m","e","-","e","x","t","e","n","s","i","o","n",":">>

AppHost == <<"a","p","p">>

DbHost == <<"w","w","w",".","t","h","e","m","e","a","l","d","b",".","c","o","m">>

UrlOf ==
    <<
      [protocol |-> Https, hostname |-> AppHost,
       pathname |-> <<"/","a","p","i","/","m","e","a","l","/","1">>],
      [protocol |-> Https, hostname |-> AppHost,
       pathname |-> <<"/","a","p","i","/","a",".","j","s">>],
      [protocol |-> Https, hostname |-> DbHost,
       pathname |-> <<"/","i","m","a","g","e","s","/","x",".","j","p","g">>],
      [protocol |-> Https, hostname |-> DbHost,
       pathname |-> <<"/","x",".","p","n","g">>],
      [protocol |-> Https, hostname |-> AppHost,
       pathname |-> <<"/">>],
      [protocol |-> Https, hostname |-> AppHost,
       pathname |-> <<"/","o","f","f","l","i","n","e",".","h","t","m","l">>],
      [protocol |-> Https, hostname |-> AppHost,
       pathname |-> <<"/","a","p","p",".","j","s">>],
      [protocol |-> Https, hostname |-> AppHost,
       pathname |-> <<"/","d","a","t","a",".","j","s","o","n">>],
      [protocol |-> Https, hostname |-> AppHost,
       pathname |-> <<"/","a","p","i">>],
      [protocol |-> ChromeExt, hostname |-> <<"e","x","t">>,
       pathname |-> <<"/","x",".","j","s">>],
      [protocol |-> Https, hostname |-> <<"c","d","n">>,
       pathname |-> <<"/","i","m","a","g","e","s","/","y",".","j","p","g">>],
      [protocol |-> HttpPlain, hostname |-> AppHost,
       pathname |-> <<"/","s",".","c","s","s">>],
      [protocol |-> Https, hostname |-> AppHost,
       pathname |-> <<"/","i","n","d","e","x",".","h","t","m","l">>],
      [protocol |-> Https, hostname |-> AppHost,
       pathname |-> <<"/","m","a","n","i","f","e","s","t",".","w","e","b","m","a","n","i","f","e","s","t">>],
      [protocol |-> Https, hostname |-> AppHost,
       pathname |-> <<"/","i","c","o","n","s","/","i","c","o","n","-","1","9","2",".","s","v","g">>],
      [protocol |-> Https, hostname |-> AppHost,
       pathname |-> <<"/","i","c","o","n","s","/","i","c","o","n","-","5","1","2",".","s","v","g">>],
      [protocol |-> Https, hostname |-> DbHost,
       pathname |-> <<"/","i","m","a","g","e","s","/","p","r","e","v","i","e","w","/","x",".","j","p","g">>],
      [protocol |-> Https, hostname |-> AppHost,
       pathname |-> <<"/","a","p","i","/","m","e","a","l","/","2">>],
      [protocol |-> Https, hostname |-> DbHost,
       pathname |-> <<"/","i","m","a","g","e","s","/","y",".","j","p","g">>],
      [protocol |-> Https, hostname |-> DbHost,
       pathname |-> <<"/","i","m","a","g","e","s","/","p","r","e","v","i","e","w","/","y",".","j","p","g">>]
    >>

Urls == 1..Len(UrlOf)

Methods == {"GET", "POST", "HEAD"}

Modes == {"navigate", "cors", "no-cors"}

\* Every request the dispatcher is tried on.
AllReqs == [method : Methods, url : Urls, mode : Modes]

Req(m, u, md) == [method |-> m, url |-> u, mode |-> md]

NoReq == [method |-> "-", url |-> 0, mode |-> "-"]

\* The key of a path of the app's own origin, as in caches.match('/').
KeyOfPath(path) ==
    CHOOSE u \in Urls : /\ UrlOf[u].protocol = Https
                        /\ UrlOf[u].hostname = AppHost
                        /\ UrlOf[u].pathname = path

RootPath == <<"/">>

OfflinePath == <<"/","o","f","f","l","i","n","e",".","h","t","m","l">>

\* Files to precache (part_002 lines 18-25)
PRECACHE_ASSETS ==
    << RootPath, <<"/","i","n","d","e","x",".","h","t","m","l">>, OfflinePath, <<"/","m","a","n","i","f","e","s","t",".","w","e","b","m","a","n","i","f","e","s","t">>,
       <<"/","i","c","o","n","s","/","i","c","o","n","-","1","9","2",".","s","v","g">>,
       <<"/","i","c","o","n","s","/","i","c","o","n","-","5","1","2",".","s","v","g">> >>

\* ------------------------------------------------------------------------
\* Strategy selection (fetch event listener, part_002 lines 101-139)
\* ------------------------------------------------------------------------
isStaticAsset(pathname) ==
    \E ext \in staticExtensions : endsWith(pathname, ext)

\* Dispatch with the navigation rule first
DispatchNavigateFirst(request) ==
    LET url == UrlOf[request.url] IN
    IF request.method # "GET" THEN "PASS"
    ELSE IF ~startsWith(url.protocol, Http) THEN "PASS"
    ELSE IF request.mode = "navigate" THEN "NAV"
    ELSE IF startsWith(url.pathname, ApiPrefix) THEN "NF"
    ELSE IF includes(url.hostname, MealDbHost) /\ includes(url.pathname, ImagesPath)
         THEN "SWR"
    ELSE IF isStaticAsset(url.pathname) THEN "CF"
    ELSE "NF"

\* Dispatch without the test of the method
DispatchAnyMethod(request) ==
    LET url == UrlOf[request.url] IN
    IF ~startsWith(url.protocol, Http) THEN "PASS"
    ELSE IF startsWith(url.pathname, ApiPrefix) THEN "NF"
    ELSE IF includes(url.hostname, MealDbHost) /\ includes(url.pathname, ImagesPath)
         THEN "SWR"
    ELSE IF request.mode = "navigate" THEN "NAV"
    ELSE IF isStaticAsset(url.pathname) THEN "CF"
    ELSE "NF"

Dispatch(request) ==
    LET url == UrlOf[request.url] IN
    IF request.method # "GET" THEN "PASS"
    ELSE IF ~startsWith(url.protocol, Http) THEN "PASS"
    ELSE IF startsWith(url.pathname, ApiPrefix) THEN "NF"
    ELSE IF includes(url.hostname, MealDbHost) /\ includes(url.pathname, ImagesPath)
         THEN "SWR"
    ELSE IF request.mode = "navigate" THEN "NAV"
    ELSE IF isStaticAsset(url.pathname) THEN "CF"
    ELSE "NF"

\* ------------------------------------------------------------------------
\* Cache storage (the host's CacheStorage and Cache objects, as the code uses
\* them).  `storage` lists the named caches in creation order, which is the
\* order of caches.keys() and the search order of caches.match; the entries
\* of a cache are in insertion order, which is the order of cache.keys().
\* ------------------------------------------------------------------------
None == "none"

HasCache(st, name) == \E i \in 1..Len(st) : st[i].name = name

\* caches.open(name): creates the cache when it does not exist
CachesOpen(st, name) ==
    IF HasCache(st, name) THEN st
    ELSE Append(st, [name |-> name, entries |-> <<>>])

Entries(st, name) ==
    IF HasCache(st, name)
    THEN st[CHOOSE i \in 1..Len(st) : st[i].name = name].entries
    ELSE <<>>

WithEntries(st, name, es) ==
    [i \in 1..Len(st) |->
        IF st[i].name = name THEN [st[i] EXCEPT !.entries = es] ELSE st[i]]

\* cache.keys()
CacheKeys(es) == [i \in 1..Len(es) |-> es[i].key]

HasKey(es, key) == \E i \in 1..Len(es) : es[i].key = key

\* cache.match(key): the body of the stored response, or None
CacheMatch(es, key) ==
    IF HasKey(es, key)
    THEN es[CHOOSE i \in 1..Len(es) : es[i].key = key].body
    ELSE None

\* cache.delete(key)
CacheDelete(es, key) == SelectSeq(es, LAMBDA e : e.key # key)

\* cache.put(key, response): an entry of the same key is removed and the new
\* entry is appended
CachePut(es, key, body) ==
    Append(CacheDelete(es, key), [key |-> key, body |-> body])

\* caches.match(key): the first hit, searching the caches in creation order
CachesMatch(st, key) ==
    IF \E i \in 1..Len(st) : HasKey(st[i].entries, key)
    THEN CacheMatch(
           st[CHOOSE i \in 1..Len(st) :
                 /\ HasKey(st[i].entries, key)
                 /\ \A j \in 1..(i - 1) : ~HasKey(st[j].entries, key)].entries,
           key)
    ELSE None

\* ------------------------------------------------------------------------
\* Responses
\* ------------------------------------------------------------------------
NoResp == [status |-> 0, ctype |-> "-", body |-> "-", src |-> "-"]

\* the requester's fetch is not answered by the worker (no respondWith)
PassThrough == [status |-> 0, ctype |-> "-", body |-> "-", src |-> "browser"]

Bodies == {"b1", "b2"}

NetOk(b) == [status |-> 200, ctype |-> "upstream", body |-> b, src |-> "network"]

NetNotOk == [status |-> 404, ctype |-> "upstream", body |-> "not found", src |-> "network"]

FromCache(b) == [status |-> 200, ctype |-> "stored", body |-> b, src |-> "cache"]

\* part_002 lines 206-212; the body is JSON.stringify of the object literal
OfflineJson ==
    [status |-> 503, ctype |-> "application/json",
     body |-> "{\"error\":\"Offline\",\"message\":\"No cached data available\"}",
     src |-> "synthetic"]

\* part_002 line 174
OfflineText ==
    [status |-> 503, ctype |-> "text/plain;charset=UTF-8", body |-> "Offline",
     src |-> "synthetic"]

\* part_002 lines 286-289
OfflineHtml ==
    [status |-> 503, ctype |-> "text/html", body |-> "Offline", src |-> "synthetic"]

\* staleWhileRevalidateStrategy resolves with null (part_002 line 239)
NullResp == [status |-> 0, ctype |-> "-", body |-> "-", src |-> "null"]

\* ------------------------------------------------------------------------
\* State
\* ------------------------------------------------------------------------
VARIABLES
    storage,    \* the named caches, in creation order
    tasks,      \* slot -> the request handled there and its background work
    arrived,    \* number of requests and hydrator calls so far
    worker,     \* the service worker: lifecycle, handlers of its events
    favs,       \* the records of the object store 'favorites'
    db,         \* dbInstance of the favorites module and the connections opened
    clock,      \* what Date.now() returns
    ops,        \* slot -> the favorites function running there
    log         \* the latest favorites calls that returned, in that order

storeVars == <<favs, db, clock, ops, log>>

vars == <<storage, tasks, arrived, worker, favs, db, clock, ops, log>>

Slots == 1..MaxTasks

\* no apiFetch call has settled
NoCall ==
    [throws |-> "-", message |-> "-", status |-> 0, isOffline |-> FALSE,
     data |-> "-"]

\* A slot.  kind: the strategy or hydrator function running; pc: where its
\* foreground code is; net: its network fetch; resp: what the requester got;
\* put: its cache.put; lim, victim: its limitCacheSize.  keys0, putFirst and
\* len0 record history: the key list limitCacheSize read first, whether the
\* put had been stored by then, and the size of the target cache when the
\* request arrived.  chain: the hydrator calls cacheMealForOffline makes
\* after the one running in the slot.
\* api: what the apiFetch call of the page that made the request settled with.
\* maxItems: the limit its limitCacheSize was called with.
\* query, failureCount: the state of the query that called apiFetch and the
\* number of its attempts that failed and were retried.
\* logged: "warn" when the hydrator call of the slot has logged a failure.
Idle ==
    [kind |-> "idle", req |-> NoReq, pc |-> "idle", cached |-> None,
     net |-> "none", body |-> None, resp |-> NoResp, put |-> "none",
     lim |-> "none", victim |-> 0, keys0 |-> <<>>, putFirst |-> FALSE,
     len0 |-> 0, chain |-> <<>>, api |-> NoCall, maxItems |-> 0,
     query |-> "none", failureCount |-> 0, logged |-> "none"]

\* nothing of the slot is in flight
Settled(t) ==
    /\ t.pc \in {"idle", "done"}
    /\ t.put # "pending"
    /\ t.lim \in {"none", "done"}
    /\ t.chain = <<>>

Quiescent == \A i \in Slots : Settled(tasks[i])

\* A request arrives in slot i.  What the other slots still show of finished
\* work is dropped.
Install(i, t) ==
    [j \in Slots |->
        IF j = i THEN t
        ELSE IF Settled(tasks[j]) THEN Idle ELSE tasks[j]]

\* the slot a new request takes: the first one with nothing in flight
FreeSlot(i) ==
    /\ Settled(tasks[i])
    /\ \A j \in 1..(i - 1) : ~Settled(tasks[j])

OpSlots == 1..MaxOps

NoMeal == [idMeal |-> <<>>, strMeal |-> <<>>, strMealThumb |-> 0]

\* A slot of `ops`.  fn: the exported function called; sub: the function
\* whose body is running (toggleFavorite calls three others); pc: where
\* that body is; handle: what its getDB returned; result: what its
\* request on the store returned; stamp: the savedAt it wrote.
IdleOp ==
    [fn |-> "idle", sub |-> "idle", meal |-> NoMeal, id |-> <<>>,
     sortBy |-> "-", order |-> "-", pc |-> "idle", handle |-> 0,
     result |-> "-", stamp |-> 0]

\* no favorites call yet in this session, the database never opened
\* conflict: what stands against opening the stored database at the code's
\* version: "none"; "newer", it was stored at a higher version; or "blocked",
\* it needs an upgrade while another context holds it open.
ClosedDb ==
    [instance |-> 0, opened |-> 0, conflict |-> "none", closed |-> {},
     terminated |-> {}]

StoreUnused ==
    /\ favs = {}
    /\ db = ClosedDb
    /\ clock = 0
    /\ ops = [o \in OpSlots |-> IdleOp]
    /\ log = <<>>

\* The service worker.  phase: its lifecycle state, kept by the host; pc and
\* outcome: the position of the install or activate handler and the promise
\* it gave to waitUntil; skipWaiting, claimed: what it asked of the host;
\* doomed: the caches.delete calls of activate still to settle; removed: the
\* names activate logged as deleted; msg, mdoomed: the CLEAR_CACHE handler
\* and its caches.delete calls still to settle; msgs, last: the number of
\* messages received and the type of the latest; cleared: the names the
\* latest CLEAR_CACHE called caches.delete for.
NewWorker ==
    [phase |-> "parsed", pc |-> "idle", outcome |-> "none",
     skipWaiting |-> FALSE, claimed |-> FALSE, doomed |-> {}, removed |-> {},
     msg |-> "none", mdoomed |-> {}, msgs |-> 0, last |-> "none",
     cleared |-> {}]

\* installed with a successful precache and activated
ActiveWorker ==
    [NewWorker EXCEPT !.phase = "activated", !.outcome = "resolved",
                      !.skipWaiting = TRUE, !.claimed = TRUE]

\* The cache a task's put goes to.  staleWhileRevalidateStrategy is only
\* called with IMAGE_CACHE (part_002 line 121).  A limitCacheSize called on
\* its own ("limit") is given the dynamic cache.
PutCache(kind) ==
    CASE kind = "CF" -> STATIC_CACHE
      [] kind \in {"NF", "NAV", "limit"} -> DYNAMIC_CACHE
      [] kind = "SWR" -> IMAGE_CACHE
      [] kind = "hydApi" -> HydratorCaches.dynamic
      [] kind \in {"hydImg", "hydImgs"} -> HydratorCaches.images

\* The limit a task's limitCacheSize enforces (part_002 lines 192 and 232)
LimMax(kind) ==
    IF kind = "NF" THEN MAX_DYNAMIC_CACHE_SIZE ELSE MAX_IMAGE_CACHE_SIZE

\* ------------------------------------------------------------------------
\* Initial states: the worker is installed and active.  The caches hold what
\* earlier sessions left: nothing, or entries of URLs that are not requested
\* again (keys above 100), the oldest first.
\* ------------------------------------------------------------------------
Fill(n) == [j \in 1..n |-> [key |-> 100 + j, body |-> "old"]]

Precached ==
    [j \in 1..Len(PRECACHE_ASSETS) |->
        [key |-> KeyOfPath(PRECACHE_ASSETS[j]), body |-> "shell"]]

Cache(name, es) == [name |-> name, entries |-> es]

ReqApi == Req("GET", 1, "cors")

ReqImage == Req("GET", 3, "no-cors")

ReqPage == Req("GET", 9, "navigate")

ReqScript == Req("GET", 7, "no-cors")

ReqPost == Req("POST", 1, "cors")

ReqExt == Req("GET", 10, "no-cors")

InitStorages ==
    { << Cache(STATIC_CACHE, Precached) >>,
      << Cache(STATIC_CACHE, <<>>) >>,
      << Cache(STATIC_CACHE, Precached),
         Cache(DYNAMIC_CACHE, Fill(MAX_DYNAMIC_CACHE_SIZE)),
         Cache(IMAGE_CACHE, Fill(MAX_IMAGE_CACHE_SIZE)) >>,
      << Cache(STATIC_CACHE, Precached),
         Cache(DYNAMIC_CACHE,
               <<[key |-> ReqApi.url, body |-> "old"]>>
                  \o Fill(MAX_DYNAMIC_CACHE_SIZE - 1)),
         Cache(IMAGE_CACHE,
               <<[key |-> ReqImage.url, body |-> "old"]>>
                  \o Fill(MAX_IMAGE_CACHE_SIZE - 1)) >> }

Init ==
    /\ storage \in InitStorages
    /\ tasks = [i \in Slots |-> Idle]
    /\ arrived = 0
    /\ worker = ActiveWorker
    /\ StoreUnused

\* ------------------------------------------------------------------------
\* fetch event listener (part_002 lines 101-139) with the first steps of the
\* strategy it calls, up to that strategy's first wait for the network
\* ------------------------------------------------------------------------
\* networkFirstStrategy and navigationStrategy begin with fetch(request)
StartNetworkFirst(i, request, kind) ==
    /\ tasks' = Install(i,
          [Idle EXCEPT !.kind = kind, !.req = request, !.pc = "fetch",
                       !.net = "pending",
                       !.len0 = Len(Entries(storage, DYNAMIC_CACHE))])
    /\ UNCHANGED storage

\* the lookup of cacheFirstStrategy, part_002 line 156
cacheFirstLookupMisses(st, key) == None

cacheFirstLookup(st, key) == CachesMatch(st, key)

\* cacheFirstStrategy, part_002 lines 156-163
StartCacheFirst(i, request) ==
    LET hit == cacheFirstLookup(storage, request.url) IN
    /\ tasks' = Install(i,
          IF hit # None
          THEN [Idle EXCEPT !.kind = "CF", !.req = request, !.pc = "done",
                            !.cached = hit, !.resp = FromCache(hit)]
          ELSE [Idle EXCEPT !.kind = "CF", !.req = request, !.pc = "fetch",
                            !.net = "pending"])
    /\ UNCHANGED storage

\* What staleWhileRevalidateStrategy has returned when it has started its
\* fetch, part_002 line 243: the cached response, or nothing yet
returnedAtOnceWaits(cached) == NoResp

returnedAtOnce(cached) ==
    IF cached # None THEN FromCache(cached) ELSE NoResp

\* staleWhileRevalidateStrategy, part_002 lines 221-225 and 243: with a
\* cached response the strategy returns it while the fetch is in flight
StartStaleWhileRevalidate(i, request) ==
    LET st  == CachesOpen(storage, IMAGE_CACHE)
        hit == CacheMatch(Entries(st, IMAGE_CACHE), request.url) IN
    /\ storage' = st
    /\ tasks' = Install(i,
          [Idle EXCEPT !.kind = "SWR", !.req = request, !.pc = "fetch",
                       !.net = "pending", !.cached = hit,
                       !.resp = returnedAtOnce(hit),
                       !.len0 = Len(Entries(st, IMAGE_CACHE))])

FetchEvent(i, request) ==
    /\ FreeSlot(i)
    /\ LET strategy == Dispatch(request) IN
       CASE strategy = "PASS" ->
               /\ tasks' = Install(i,
                     [Idle EXCEPT !.kind = "PASS", !.req = request,
                                  !.pc = "done", !.resp = PassThrough])
               /\ UNCHANGED storage
         [] strategy \in {"NF", "NAV"} -> StartNetworkFirst(i, request, strategy)
         [] strategy = "CF" -> StartCacheFirst(i, request)
         [] strategy = "SWR" -> StartStaleWhileRevalidate(i, request)

\* ------------------------------------------------------------------------
\* The network.  A fetch in flight ends with a 2xx response, with another
\* status, or with a failure; it may also stay in flight for ever.
\* ------------------------------------------------------------------------
Outcomes ==
    {[net |-> "ok", body |-> b] : b \in Bodies}
       \cup {[net |-> "notok", body |-> None], [net |-> "fail", body |-> None]}

Fetching(i, kind) ==
    /\ tasks[i].kind = kind
    /\ tasks[i].pc = "fetch"
    /\ tasks[i].net = "pending"

\* the fallback lookup of networkFirstStrategy, part_002 line 199
networkFirstFallbackSkipped(st, key) == None

networkFirstFallback(st, key) == CachesMatch(st, key)

\* networkFirstStrategy after its fetch, part_002 lines 184-213.  The put
\* and limitCacheSize are started and not awaited.
NetworkFirstFetched(i, out) ==
    /\ Fetching(i, "NF")
    /\ LET t == tasks[i]
           hit == networkFirstFallback(storage, t.req.url) IN
       CASE out.net = "ok" ->
               /\ storage' = CachesOpen(storage, DYNAMIC_CACHE)
               /\ tasks' = [tasks EXCEPT ![i] =
                     [t EXCEPT !.net = "ok", !.body = out.body, !.pc = "done",
                               !.put = "pending", !.lim = "first",
                               !.maxItems = MAX_DYNAMIC_CACHE_SIZE,
                               !.resp = NetOk(out.body)]]
         [] out.net = "notok" ->
               /\ tasks' = [tasks EXCEPT ![i] =
                     [t EXCEPT !.net = "notok", !.pc = "done", !.resp = NetNotOk]]
               /\ UNCHANGED storage
         [] out.net = "fail" ->
               /\ tasks' = [tasks EXCEPT ![i] =
                     [t EXCEPT !.net = "fail", !.pc = "done", !.cached = hit,
                               !.resp = IF hit # None THEN FromCache(hit)
                                        ELSE OfflineJson]]
               /\ UNCHANGED storage

\* navigationStrategy after its fetch, part_002 lines 253-270
NavigationFetched(i, out) ==
    /\ Fetching(i, "NAV")
    /\ LET t == tasks[i]
           hit == CachesMatch(storage, t.req.url) IN
       CASE out.net = "ok" ->
               /\ storage' = CachesOpen(storage, DYNAMIC_CACHE)
               /\ tasks' = [tasks EXCEPT ![i] =
                     [t EXCEPT !.net = "ok", !.body = out.body, !.pc = "done",
                               !.put = "pending", !.resp = NetOk(out.body)]]
         [] out.net = "notok" ->
               /\ tasks' = [tasks EXCEPT ![i] =
                     [t EXCEPT !.net = "notok", !.pc = "done", !.resp = NetNotOk]]
               /\ UNCHANGED storage
         [] out.net = "fail" ->
               /\ tasks' = [tasks EXCEPT ![i] =
                     IF hit # None
                     THEN [t EXCEPT !.net = "fail", !.pc = "done", !.cached = hit,
                                    !.resp = FromCache(hit)]
                     ELSE [t EXCEPT !.net = "fail", !.pc = "root"]]
               /\ UNCHANGED storage

navigationRootHitSkipped(st) == None

\* caches.match('/') of navigationStrategy, part_002 line 273
navigationRootHit(st) == CachesMatch(st, KeyOfPath(RootPath))

\* navigationStrategy, part_002 lines 273-276: caches.match('/')
NavigationRoot(i) ==
    /\ tasks[i].kind = "NAV"
    /\ tasks[i].pc = "root"
    /\ LET hit == navigationRootHit(storage) IN
       tasks' = [tasks EXCEPT ![i] =
          IF hit # None
          THEN [@ EXCEPT !.pc = "done", !.cached = hit, !.resp = FromCache(hit)]
          ELSE [@ EXCEPT !.pc = "offline"]]
    /\ UNCHANGED storage

\* navigationStrategy, part_002 lines 279-289: caches.match('/offline.html')
NavigationOffline(i) ==
    /\ tasks[i].kind = "NAV"
    /\ tasks[i].pc = "offline"
    /\ LET hit == CachesMatch(storage, KeyOfPath(OfflinePath)) IN
       tasks' = [tasks EXCEPT ![i] =
          IF hit # None
          THEN [@ EXCEPT !.pc = "done", !.cached = hit, !.resp = FromCache(hit)]
          ELSE [@ EXCEPT !.pc = "done", !.resp = OfflineHtml]]
    /\ UNCHANGED storage

cacheFirstFailedFallsBack(st, key) ==
    IF CachesMatch(st, key) # None THEN FromCache(CachesMatch(st, key))
    ELSE OfflineText

\* What the catch of cacheFirstStrategy returns (part_002 lines 171-175): the
\* fixed response, whatever the caches hold by then
cacheFirstFailed(st, key) == OfflineText

\* cacheFirstStrategy after its fetch, part_002 lines 163-175
CacheFirstFetched(i, out) ==
    /\ Fetching(i, "CF")
    /\ LET t == tasks[i] IN
       CASE out.net = "ok" ->
               /\ storage' = CachesOpen(storage, STATIC_CACHE)
               /\ tasks' = [tasks EXCEPT ![i] =
                     [t EXCEPT !.net = "ok", !.body = out.body, !.pc = "done",
                               !.put = "pending", !.resp = NetOk(out.body)]]
         [] out.net = "notok" ->
               /\ tasks' = [tasks EXCEPT ![i] =
                     [t EXCEPT !.net = "notok", !.pc = "done", !.resp = NetNotOk]]
               /\ UNCHANGED storage
         [] out.net = "fail" ->
               /\ tasks' = [tasks EXCEPT ![i] =
                     [t EXCEPT !.net = "fail", !.pc = "done",
                               !.resp = cacheFirstFailed(storage, t.req.url)]]
               /\ UNCHANGED storage

\* networkFirstStrategy when its fetch answered ok and caches.open rejects
\* (part_002 line 188): the await throws inside the try, and the catch
\* (lines 196-213) answers from the caches or with the offline response
NetworkFirstUnopened(i, out) ==
    /\ Fetching(i, "NF")
    /\ out.net = "ok"
    /\ LET t == tasks[i]
           hit == networkFirstFallback(storage, t.req.url) IN
       tasks' = [tasks EXCEPT ![i] =
          [t EXCEPT !.net = "ok", !.body = out.body, !.pc = "done",
                    !.put = "unopened", !.cached = hit,
                    !.resp = IF hit # None THEN FromCache(hit) ELSE OfflineJson]]
    /\ UNCHANGED storage

\* cacheFirstStrategy when its fetch answered ok and caches.open rejects
\* (part_002 line 166): the catch (lines 171-175) answers
CacheFirstUnopened(i, out) ==
    /\ Fetching(i, "CF")
    /\ out.net = "ok"
    /\ LET t == tasks[i] IN
       tasks' = [tasks EXCEPT ![i] =
          [t EXCEPT !.net = "ok", !.body = out.body, !.pc = "done",
                    !.put = "unopened",
                    !.resp = cacheFirstFailed(storage, t.req.url)]]
    /\ UNCHANGED storage

\* navigationStrategy when its fetch answered ok and caches.open rejects
\* (part_002 line 257): the catch (lines 262-290) goes through the caches
NavigationUnopened(i, out) ==
    /\ Fetching(i, "NAV")
    /\ out.net = "ok"
    /\ LET t == tasks[i]
           hit == CachesMatch(storage, t.req.url) IN
       tasks' = [tasks EXCEPT ![i] =
          IF hit # None
          THEN [t EXCEPT !.net = "ok", !.body = out.body, !.pc = "done",
                         !.put = "unopened", !.cached = hit,
                         !.resp = FromCache(hit)]
          ELSE [t EXCEPT !.net = "ok", !.body = out.body, !.pc = "root",
                         !.put = "unopened"]]
    /\ UNCHANGED storage

RevalidatedFromNetwork(cached, netResp) == netResp

\* What staleWhileRevalidateStrategy resolves with (part_002 line 243), given
\* the cached response and what networkPromise resolves with
Revalidated(cached, netResp) ==
    IF cached # None THEN FromCache(cached) ELSE netResp

\* the fetch of staleWhileRevalidateStrategy settles, part_002 lines 226-240
RevalidateFetched(i, out) ==
    /\ Fetching(i, "SWR")
    /\ LET t == tasks[i] IN
       CASE out.net = "ok" ->
               /\ tasks' = [tasks EXCEPT ![i] =
                     [t EXCEPT !.net = "ok", !.body = out.body, !.pc = "done",
                               !.put = "pending", !.lim = "first",
                               !.maxItems = MAX_IMAGE_CACHE_SIZE,
                               !.resp = Revalidated(t.cached, NetOk(out.body))]]
         [] out.net = "notok" ->
               /\ tasks' = [tasks EXCEPT ![i] =
                     [t EXCEPT !.net = "notok", !.pc = "done",
                               !.resp = Revalidated(t.cached, NetNotOk)]]
         [] out.net = "fail" ->
               /\ tasks' = [tasks EXCEPT ![i] =
                     [t EXCEPT !.net = "fail", !.pc = "done",
                               !.resp = Revalidated(t.cached, NullResp)]]
    /\ UNCHANGED storage

\* ------------------------------------------------------------------------
\* Background work
\* ------------------------------------------------------------------------
\* a cache.put takes effect
PutCommit(i) ==
    /\ tasks[i].put = "pending"
    /\ LET t == tasks[i]
           c == PutCache(t.kind) IN
       /\ storage' = WithEntries(storage, c,
                                 CachePut(Entries(storage, c), t.req.url, t.body))
       /\ tasks' = [tasks EXCEPT ![i] =
             [t EXCEPT !.put = "stored",
                       !.pc = IF t.pc = "put" THEN "done" ELSE t.pc]]

\* What a rejection inside a hydrator call leaves on the console.  The
\* catch of cacheImage and of cacheApiResponse warns (cache.ts lines 35-37
\* and 90-92).  In cacheImages the rejection of the function of one URL
\* is taken by Promise.allSettled, whose results are not read (lines
\* 52-64).  "hydImgs" is the function of one URL of a cacheImages call.
failureLogged(kind) ==
    IF kind \in {"hydImg", "hydApi"} THEN "warn" ELSE "none"

\* A cache.put rejects (quota exceeded).  The hydrator awaits its put inside
\* a try and its catch returns (cache.ts lines 32-37 and 88-92); the worker
\* does not await its put (part_002 lines 167, 189, 228 and 258).
PutFails(i) ==
    /\ tasks[i].put = "pending"
    /\ LET t == tasks[i] IN
       tasks' = [tasks EXCEPT ![i] =
          [t EXCEPT !.put = "failed",
                    !.logged = failureLogged(t.kind),
                    !.pc = IF t.pc = "put" THEN "done" ELSE t.pc]]
    /\ UNCHANGED storage

overLimitByTwo(keys, maxItems) == Len(keys) > maxItems + 1

\* the test of limitCacheSize, part_002 line 40
overLimit(keys, maxItems) == Len(keys) > maxItems

\* the key limitCacheSize deletes, part_002 line 42: keys[0]
oldestKeyLast(keys) == keys[Len(keys)]

oldestKeyMissing(keys) == 0

oldestKey(keys) == keys[1]

\* limitCacheSize, part_002 lines 37-40: open the cache, read its keys and
\* decide
LimitRead(i) ==
    /\ tasks[i].lim \in {"first", "read"}
    /\ LET t == tasks[i]
           c == PutCache(t.kind)
           st == CachesOpen(storage, c)
           keys == CacheKeys(Entries(st, c)) IN
       /\ storage' = st
       /\ tasks' = [tasks EXCEPT ![i] =
             [t EXCEPT !.lim = IF overLimit(keys, t.maxItems) THEN "delete"
                               ELSE "done",
                       !.victim = IF overLimit(keys, t.maxItems)
                                  THEN oldestKey(keys) ELSE 0,
                       !.keys0 = IF t.lim = "first" THEN keys ELSE t.keys0,
                       !.putFirst = IF t.lim = "first" THEN t.put = "stored"
                                    ELSE t.putFirst]]

\* limitCacheSize, part_002 lines 42-44: delete keys[0], then start over
LimitDelete(i) ==
    /\ tasks[i].lim = "delete"
    /\ LET t == tasks[i]
           c == PutCache(t.kind) IN
       /\ storage' = WithEntries(storage, c,
                                 CacheDelete(Entries(storage, c), t.victim))
       /\ tasks' = [tasks EXCEPT ![i] = [t EXCEPT !.lim = "read"]]

\* limitCacheSize(DYNAMIC_CACHE, maxItems) called by itself, part_002 line 36
limitTask(maxItems) ==
    [Idle EXCEPT !.kind = "limit", !.pc = "done", !.lim = "first",
                 !.maxItems = maxItems]

limitCacheSize(i, maxItems) ==
    /\ FreeSlot(i)
    /\ tasks' = Install(i, limitTask(maxItems))
    /\ UNCHANGED storage

\* limitCacheSize rejects at caches.open, cache.keys or cache.delete
\* (part_002 lines 37-42); nothing awaits it (lines 192 and 232)
LimitFails(i) ==
    /\ tasks[i].lim \in {"first", "read", "delete"}
    /\ tasks' = [tasks EXCEPT ![i] = [@ EXCEPT !.lim = "failed", !.victim = 0]]
    /\ UNCHANGED storage

\* ------------------------------------------------------------------------
\* The hydrator (client/src/lib/cache.ts)
\* ------------------------------------------------------------------------
\* cacheApiResponse up to its cache.put, cache.ts lines 75-88
apiTask(st, url) ==
    [Idle EXCEPT !.kind = "hydApi", !.req = Req("GET", url, "cors"),
                 !.pc = "put", !.body = "data", !.put = "pending",
                 !.len0 = Len(Entries(st, HydratorCaches.dynamic))]

\* cacheApiResponse, cache.ts lines 75-93
cacheApiResponse(i, url) ==
    /\ FreeSlot(i)
    /\ storage' = CachesOpen(storage, HydratorCaches.dynamic)
    /\ tasks' = Install(i, apiTask(storage, url))

\* cacheImage up to its return or its fetch, cache.ts lines 16-30; st is the
\* storage after caches.open(IMAGE_CACHE)
imageTask(st, url) ==
    LET existing == CacheMatch(Entries(st, HydratorCaches.images), url) IN
    IF existing # None
    THEN [Idle EXCEPT !.kind = "hydImg", !.req = Req("GET", url, "cors"),
                      !.pc = "done", !.cached = existing]
    ELSE [Idle EXCEPT !.kind = "hydImg", !.req = Req("GET", url, "cors"),
                      !.pc = "fetch", !.net = "pending",
                      !.len0 = Len(Entries(st, HydratorCaches.images))]

\* cacheImage, cache.ts lines 16-30
cacheImage(i, url) ==
    /\ FreeSlot(i)
    /\ storage' = CachesOpen(storage, HydratorCaches.images)
    /\ tasks' = Install(i, imageTask(CachesOpen(storage, HydratorCaches.images), url))

\* cacheImage, cache.ts lines 30-37, and the function of one URL in
\* cacheImages, lines 56-59
ImageFetched(i, out) ==
    /\ tasks[i].kind \in {"hydImg", "hydImgs"}
    /\ tasks[i].pc = "fetch"
    /\ tasks' = [tasks EXCEPT ![i] =
          CASE out.net = "ok" ->
                  [@ EXCEPT !.net = "ok", !.body = out.body, !.pc = "put",
                            !.put = "pending"]
            [] out.net = "notok" -> [@ EXCEPT !.net = "notok", !.pc = "done"]
            [] out.net = "fail" ->
                  [@ EXCEPT !.net = "fail", !.pc = "done",
                            !.logged = failureLogged(tasks[i].kind)]]
    /\ UNCHANGED storage

\* [...new Set(imageUrls.filter(Boolean))], cache.ts line 47: the URLs that
\* are not empty (0 stands for the empty string), each once, in the order
\* of their first occurrence
RECURSIVE uniqueUrls(_)
uniqueUrls(imageUrls) ==
    IF imageUrls = <<>> THEN <<>>
    ELSE LET front == uniqueUrls(SubSeq(imageUrls, 1, Len(imageUrls) - 1))
             last == imageUrls[Len(imageUrls)] IN
         IF last = 0 \/ \E k \in 1..Len(front) : front[k] = last THEN front
         ELSE Append(front, last)

\* the function of one URL in cacheImages up to its return or its fetch,
\* cache.ts lines 53-56
imagesTask(st, url) ==
    [imageTask(st, url) EXCEPT !.kind = "hydImgs"]

\* cacheImages, cache.ts lines 44-56: the functions of all URLs are started
\* together on the one cache that was opened
cacheImages(imageUrls) ==
    /\ Quiescent
    /\ Len(uniqueUrls(imageUrls)) \in 1..MaxTasks
    /\ storage' = CachesOpen(storage, HydratorCaches.images)
    /\ tasks' = [j \in Slots |->
          IF j <= Len(uniqueUrls(imageUrls))
          THEN imagesTask(CachesOpen(storage, HydratorCaches.images),
                          uniqueUrls(imageUrls)[j])
          ELSE Idle]

\* cacheImages when caches.open rejects, cache.ts lines 50 and 65-67: the
\* catch warns and no URL is looked at
cacheImagesUnopened(imageUrls) ==
    /\ Quiescent
    /\ Len(uniqueUrls(imageUrls)) \in 1..MaxTasks
    /\ tasks' = [j \in Slots |->
          IF j = 1
          THEN [Idle EXCEPT !.kind = "hydImgs",
                            !.req = Req("GET", uniqueUrls(imageUrls)[1], "cors"),
                            !.pc = "done", !.put = "unopened",
                            !.logged = "warn"]
          ELSE Idle]
    /\ UNCHANGED storage

\* ------------------------------------------------------------------------
\* The API client (client/src/lib/queryClient.ts)
\* ------------------------------------------------------------------------
\* new ApiError(message, status, isOffline), queryClient.ts lines 105-114
ApiError(message, status, isOffline) ==
    [throws |-> "ApiError", message |-> message, status |-> status,
     isOffline |-> isOffline, data |-> "-"]

\* the promise of apiFetch rejects with an error that is no ApiError
Escapes(name) ==
    [throws |-> name, message |-> "-", status |-> 0, isOffline |-> FALSE,
     data |-> "-"]

\* the promise of apiFetch resolves with the parsed body
Data(body) ==
    [throws |-> "none", message |-> "-", status |-> 0, isOffline |-> FALSE,
     data |-> body]

\* Response.ok
responseOk(status) == status >= 200 /\ status <= 299

\* What response.json() gives for a body: an object with its `error` field
\* ("" when it has none), the value null, or a rejection with a SyntaxError.
\* The error bodies are those of the worker (part_002 line 207) and of the
\* server (server/src/index.js line 67).
jsonOf(body) ==
    CASE body \in {"b1", "b2", "old", "data"} -> [parse |-> "object", error |-> ""]
      [] body = OfflineJson.body -> [parse |-> "object", error |-> "Offline"]
      [] body = NetNotOk.body -> [parse |-> "object", error |-> "Not Found"]
      [] body = "null" -> [parse |-> "null", error |-> ""]
      [] OTHER -> [parse |-> "invalid", error |-> ""]

FetchWord == <<"f","e","t","c","h">>

\* the messages of the TypeError a failed fetch rejects with, by engine
FailedToFetch == <<"F","a","i","l","e","d"," ","t","o"," ","f","e","t","c","h">>

LoadFailed == <<"L","o","a","d"," ","f","a","i","l","e","d">>

\* the message of the TypeError of reading a property of null
ErrorIsNull == <<"e","r","r","o","r"," ","i","s"," ","n","u","l","l">>

\* a fetch that settled with a response, or with a rejection
Responded(status, body) ==
    [settled |-> "response", status |-> status, body |-> body, name |-> "-",
     message |-> <<>>]

Rejected(name, message) ==
    [settled |-> "rejected", status |-> 0, body |-> "-", name |-> name,
     message |-> message]

\* the catch of apiFetch for an error that is no ApiError, queryClient.ts
\* lines 134-139
apiFetchCatch(name, message) ==
    IF name = "TypeError" /\ includes(message, FetchWord)
    THEN ApiError("Network error - you may be offline", 0, TRUE)
    ELSE ApiError("An unexpected error occurred", 500, FALSE)

\* apiFetch from its fetch on, queryClient.ts lines 121-140.  The promise of
\* response.json() in line 128 is returned, not awaited: its rejection does
\* not pass through the catch.
apiFetch(f) ==
    IF f.settled = "rejected" THEN apiFetchCatch(f.name, f.message)
    ELSE IF ~responseOk(f.status)
    THEN LET error == jsonOf(f.body) IN
         CASE error.parse = "invalid" -> ApiError("Unknown error", f.status, FALSE)
           [] error.parse = "null" -> apiFetchCatch("TypeError", ErrorIsNull)
           [] OTHER -> ApiError(IF error.error # "" THEN error.error
                                ELSE "Request failed", f.status, FALSE)
    ELSE IF jsonOf(f.body).parse = "invalid" THEN Escapes("SyntaxError")
    ELSE Data(f.body)

\* the URLs apiFetch requests: API_BASE and an endpoint
ApiUrls ==
    {u \in Urls : /\ UrlOf[u].hostname = AppHost
                  /\ startsWith(UrlOf[u].pathname, ApiPrefix)}

\* apiFetch of a page the worker controls: the fetch raises a fetch event
ApiFetchCall(i, u) == FetchEvent(i, Req("GET", u, "cors"))

\* the worker has answered and apiFetch settles
ApiFetchSettles(i) ==
    /\ tasks[i].kind = "NF"
    /\ tasks[i].req.url \in ApiUrls
    /\ tasks[i].pc = "done"
    /\ tasks[i].api = NoCall
    /\ LET resp == tasks[i].resp IN
       tasks' = [tasks EXCEPT ![i] =
          [@ EXCEPT !.api = apiFetch(Responded(resp.status, resp.body))]]
    /\ UNCHANGED storage

\* apiFetch of a page no worker controls: the fetch goes to the network
ApiFetchDirect(i, u) ==
    /\ FreeSlot(i)
    /\ tasks' = Install(i,
          [Idle EXCEPT !.kind = "direct", !.req = Req("GET", u, "cors"),
                       !.pc = "fetch", !.net = "pending"])
    /\ UNCHANGED storage

\* that fetch settles with f, and apiFetch with it
DirectSettles(i, f) ==
    /\ Fetching(i, "direct")
    /\ tasks' = [tasks EXCEPT ![i] =
          [@ EXCEPT !.pc = "done",
                    !.net = IF f.settled = "rejected" THEN "fail"
                            ELSE IF responseOk(f.status) THEN "ok" ELSE "notok",
                    !.resp = IF f.settled = "rejected" THEN NoResp
                             ELSE [status |-> f.status, ctype |-> "upstream",
                                   body |-> f.body, src |-> "network"],
                    !.api = apiFetch(f)]]
    /\ UNCHANGED storage

retryUnlessTwice(failureCount, error) == failureCount < 2

\* the retry option of the queries, queryClient.ts lines 22-28; an error
\* that is no ApiError has no isOffline property
retry(failureCount, error) ==
    IF error.throws = "ApiError" /\ error.isOffline THEN FALSE
    ELSE failureCount < 2

\* a query with the default options runs its query function, apiFetch, from
\* a page no worker controls
QueryStart(i, u) ==
    /\ FreeSlot(i)
    /\ tasks' = Install(i,
          [Idle EXCEPT !.kind = "direct", !.req = Req("GET", u, "cors"),
                       !.pc = "fetch", !.net = "pending",
                       !.query = "fetching"])
    /\ UNCHANGED storage

\* The query function has settled.  On a rejection the query asks retry
\* with the number of failures so far and the error: it counts the failure
\* and runs the function again, or ends in the error state.
QuerySettles(i) ==
    /\ tasks[i].query = "fetching"
    /\ tasks[i].pc = "done"
    /\ LET t == tasks[i] IN
       tasks' = [tasks EXCEPT ![i] =
          IF t.api.throws = "none" THEN [t EXCEPT !.query = "success"]
          ELSE IF retry(t.failureCount, t.api)
          THEN [t EXCEPT !.failureCount = t.failureCount + 1,
                         !.pc = "fetch", !.net = "pending",
                         !.resp = NoResp, !.api = NoCall]
          ELSE [t EXCEPT !.query = "error"]]
    /\ UNCHANGED storage

\* ------------------------------------------------------------------------
\* Lifecycle and the control channel (part_002 lines 50-97 and 295-309)
\* ------------------------------------------------------------------------
\* CACHE_VERSION and the literal of the activate filter (part_002 lines 12, 80)
CACHE_VERSION == <<"v","1">>

AppPrefix == <<"r","e","c","i","p","e","-","a","p","p","-">>

\* caches of an earlier version of the worker and of other code of the origin
StaleStatic == "recipe-app-static-v0"

ForeignCache == "other-cache"

NearPrefix == "recipe-app"

\* the characters of a cache name
nameChars(name) ==
    CASE name = STATIC_CACHE ->
            AppPrefix \o <<"s","t","a","t","i","c","-">> \o CACHE_VERSION
      [] name = DYNAMIC_CACHE ->
            AppPrefix \o <<"d","y","n","a","m","i","c","-">> \o CACHE_VERSION
      [] name = IMAGE_CACHE ->
            AppPrefix \o <<"i","m","a","g","e","s","-">> \o CACHE_VERSION
      [] name = StaleStatic ->
            AppPrefix \o <<"s","t","a","t","i","c","-","v","0">>
      [] name = StaleImages ->
            AppPrefix \o <<"i","m","a","g","e","s","-","v","0">>
      [] name = StaleDynamic ->
            AppPrefix \o <<"d","y","n","a","m","i","c","-","v","0">>
      [] name = ForeignCache ->
            <<"o","t","h","e","r","-","c","a","c","h","e">>
      [] name = NearPrefix ->
            <<"r","e","c","i","p","e","-","a","p","p">>

\* caches.keys()
CachesKeys(st) == {st[n].name : n \in 1..Len(st)}

\* caches.delete(name)
CachesDelete(st, name) == SelectSeq(st, LAMBDA c : c.name # name)

\* cache.addAll(paths) once every fetch came back ok
RECURSIVE AddAll(_, _)
AddAll(es, paths) ==
    IF paths = <<>> THEN es
    ELSE AddAll(CachePut(es, KeyOfPath(Head(paths)), "shell"), Tail(paths))

\* the host dispatches install to a new worker
InstallEvent ==
    /\ worker.phase = "parsed"
    /\ worker' = [worker EXCEPT !.phase = "installing", !.pc = "open",
                                !.outcome = "pending"]
    /\ UNCHANGED storage

\* caches.open(STATIC_CACHE) settles, part_002 line 54
InstallOpened(ok) ==
    /\ worker.phase = "installing"
    /\ worker.pc = "open"
    /\ IF ok
       THEN /\ storage' = CachesOpen(storage, STATIC_CACHE)
            /\ worker' = [worker EXCEPT !.pc = "addAll"]
       ELSE /\ worker' = [worker EXCEPT !.pc = "catch"]
            /\ UNCHANGED storage

\* cache.addAll(PRECACHE_ASSETS) settles, part_002 lines 55-58: it stores all
\* or, when a fetch fails or is not ok, nothing
InstallAddedAll(ok) ==
    /\ worker.phase = "installing"
    /\ worker.pc = "addAll"
    /\ IF ok
       THEN /\ storage' = WithEntries(CachesOpen(storage, STATIC_CACHE),
                             STATIC_CACHE,
                             AddAll(Entries(storage, STATIC_CACHE), PRECACHE_ASSETS))
            /\ worker' = [worker EXCEPT !.pc = "skip"]
       ELSE /\ worker' = [worker EXCEPT !.pc = "catch"]
            /\ UNCHANGED storage

\* the second then, part_002 lines 59-62
InstallSkipWaiting ==
    /\ worker.phase = "installing"
    /\ worker.pc = "skip"
    /\ worker' = [worker EXCEPT !.skipWaiting = TRUE, !.outcome = "resolved",
                                !.pc = "settled"]
    /\ UNCHANGED storage

installCatchRethrows == "rejected"

\* what the promise given to waitUntil becomes through the catch, part_002
\* lines 63-65
installCatch == "resolved"

InstallCaught ==
    /\ worker.phase = "installing"
    /\ worker.pc = "catch"
    /\ worker' = [worker EXCEPT !.outcome = installCatch, !.pc = "settled"]
    /\ UNCHANGED storage

\* the host ends the install step when the promise of waitUntil has settled
InstallDone ==
    /\ worker.phase = "installing"
    /\ worker.pc = "settled"
    /\ worker' = [worker EXCEPT
          !.phase = IF worker.outcome = "resolved" THEN "installed"
                    ELSE "redundant",
          !.pc = "idle"]
    /\ UNCHANGED storage

\* the host dispatches activate, at once after skipWaiting or when no page
\* uses an older worker any more
ActivateEvent ==
    /\ worker.phase = "installed"
    /\ worker' = [worker EXCEPT !.phase = "activating", !.pc = "keys",
                                !.outcome = "pending"]
    /\ UNCHANGED storage

isStaleCacheAnyVersion(name) == startsWith(nameChars(name), AppPrefix)

\* the filter of activate, part_002 lines 77-83
isStaleCache(name) ==
    /\ startsWith(nameChars(name), AppPrefix)
    /\ name # STATIC_CACHE
    /\ name # DYNAMIC_CACHE
    /\ name # IMAGE_CACHE

\* caches.keys() settles and caches.delete is called for each name that
\* passes the filter, part_002 lines 74-89
ActivateKeys ==
    /\ worker.phase = "activating"
    /\ worker.pc = "keys"
    /\ worker' = [worker EXCEPT
          !.pc = "deleting",
          !.doomed = {name \in CachesKeys(storage) : isStaleCache(name)},
          !.removed = {name \in CachesKeys(storage) : isStaleCache(name)}]
    /\ UNCHANGED storage

\* one caches.delete of activate takes effect
ActivateDelete(name) ==
    /\ worker.phase = "activating"
    /\ worker.pc = "deleting"
    /\ name \in worker.doomed
    /\ storage' = CachesDelete(storage, name)
    /\ worker' = [worker EXCEPT !.doomed = @ \ {name}]

allFulfilledAtOnce(doomed) == TRUE

\* Promise.all of the caches.delete promises is fulfilled, part_002 lines
\* 76-90: when each of them is
allFulfilled(doomed) == doomed = {}

\* Promise.all has settled: self.clients.claim(), part_002 lines 91-94
ActivateClaim ==
    /\ worker.phase = "activating"
    /\ worker.pc = "deleting"
    /\ allFulfilled(worker.doomed)
    /\ worker' = [worker EXCEPT !.claimed = TRUE, !.outcome = "resolved",
                                !.pc = "settled"]
    /\ UNCHANGED storage

\* caches.keys() or one caches.delete rejects, part_002 lines 74-90: the
\* chain rejects, the then of lines 91-94 does not run, and the promise
\* given to waitUntil is rejected
ActivateRejected ==
    /\ worker.phase = "activating"
    /\ \/ worker.pc = "keys"
       \/ worker.pc = "deleting" /\ worker.doomed # {}
    /\ worker' = [worker EXCEPT !.outcome = "rejected", !.pc = "settled"]
    /\ UNCHANGED storage

\* the host ends the activate step when the promise of waitUntil has
\* settled, fulfilled or not
ActivateDone ==
    /\ worker.phase = "activating"
    /\ worker.pc = "settled"
    /\ worker' = [worker EXCEPT !.phase = "activated", !.pc = "idle"]
    /\ UNCHANGED storage

\* event.data of a message: two commands, another type, no data
MessageTypes == {"SKIP_WAITING", "CLEAR_CACHE", "PING", "no data"}

\* message event listener, part_002 lines 295-309
Message(type) ==
    /\ worker.phase \in {"installed", "activating", "activated"}
    /\ worker.msg = "none"
    /\ worker.msgs < MaxMessages
    /\ worker' = [worker EXCEPT
          !.msgs = @ + 1,
          !.last = type,
          !.skipWaiting = IF type = "SKIP_WAITING" THEN TRUE ELSE @,
          !.msg = IF type = "CLEAR_CACHE" THEN "keys" ELSE @]
    /\ UNCHANGED storage

clearedNamesOwn(st) ==
    {name \in CachesKeys(st) : startsWith(nameChars(name), AppPrefix)}

\* the names CLEAR_CACHE deletes: all that caches.keys() lists, part_002
\* lines 302-305
clearedNames(st) == CachesKeys(st)

ClearKeys ==
    /\ worker.msg = "keys"
    /\ worker' = [worker EXCEPT !.msg = "deleting",
                                !.mdoomed = clearedNames(storage),
                                !.cleared = clearedNames(storage)]
    /\ UNCHANGED storage

\* one caches.delete of CLEAR_CACHE takes effect
ClearDelete(name) ==
    /\ worker.msg = "deleting"
    /\ name \in worker.mdoomed
    /\ storage' = CachesDelete(storage, name)
    /\ worker' = [worker EXCEPT !.mdoomed = @ \ {name}]

\* Promise.all of CLEAR_CACHE has settled
ClearDone ==
    /\ worker.msg = "deleting"
    /\ worker.mdoomed = {}
    /\ worker' = [worker EXCEPT !.msg = "none"]
    /\ UNCHANGED storage

\* ------------------------------------------------------------------------
\* The favorites store (part_005) and cacheMealForOffline (cache.ts)
\* ------------------------------------------------------------------------
\* Meals the page saves.  idMeal and strMeal are strings the store orders.
ThumbTwo ==
    CHOOSE u \in Urls :
        /\ UrlOf[u].hostname = DbHost
        /\ UrlOf[u].pathname = <<"/","i","m","a","g","e","s","/","y",".","j","p","g">>

MealOne == [idMeal |-> <<"1">>, strMeal |-> <<"B">>, strMealThumb |-> ReqImage.url]

MealOneRenamed == [MealOne EXCEPT !.strMeal = <<"C">>]

MealTwo == [idMeal |-> <<"2">>, strMeal |-> <<"A">>, strMealThumb |-> ThumbTwo]

Meals == {MealOne, MealOneRenamed, MealTwo}

MealIds == {m.idMeal : m \in Meals}

\* { ...meal, savedAt: Date.now() }, part_005 lines 83-86
withSavedAt(meal, now) ==
    [f \in (DOMAIN meal) \cup {"savedAt"} |->
        IF f = "savedAt" THEN now ELSE meal[f]]

\* what db.get returns for a key that is not stored: undefined
NoRecord == [undefined |-> TRUE]

\* db.get('favorites', id)
dbGet(fv, id) ==
    IF \E r \in fv : r.idMeal = id
    THEN CHOOSE r \in fv : r.idMeal = id
    ELSE NoRecord

dbPutAdds(fv, rec) == fv \cup {rec}

\* db.put('favorites', rec) on a store with keyPath 'idMeal' (part_005 lines
\* 47-49 and 89): the record of the same key is replaced
dbPut(fv, rec) == {r \in fv : r.idMeal # rec.idMeal} \cup {rec}

dbDeleteClears(fv, id) == {}

\* db.delete('favorites', id)
dbDelete(fv, id) == {r \in fv : r.idMeal # id}

\* db.count('favorites')
dbCountCapped(fv) == IF fv = {} THEN 0 ELSE 1

dbCount(fv) == Cardinality(fv)

\* the order of strings as index keys: by code unit
CodeUnits == <<"1","2","A","B","C">>

codeUnit(c) == CHOOSE k \in 1..Len(CodeUnits) : CodeUnits[k] = c

RECURSIVE strLess(_, _)
strLess(a, b) ==
    IF b = <<>> THEN FALSE
    ELSE IF a = <<>> THEN TRUE
    ELSE IF Head(a) = Head(b) THEN strLess(Tail(a), Tail(b))
    ELSE codeUnit(Head(a)) < codeUnit(Head(b))

\* the order of the records in the index 'by-date' (on savedAt) or 'by-name'
\* (on strMeal), part_005 lines 53-54: by index key, then by primary key
indexBefore(a, b, sortBy) ==
    IF sortBy = "date"
    THEN \/ a.savedAt < b.savedAt
         \/ a.savedAt = b.savedAt /\ strLess(a.idMeal, b.idMeal)
    ELSE \/ strLess(a.strMeal, b.strMeal)
         \/ a.strMeal = b.strMeal /\ strLess(a.idMeal, b.idMeal)

\* the records a cursor of direction 'next' yields
RECURSIVE cursorNext(_, _)
cursorNext(fv, sortBy) ==
    IF fv = {} THEN <<>>
    ELSE LET first == CHOOSE r \in fv :
                         \A q \in fv : ~indexBefore(q, r, sortBy) IN
         <<first>> \o cursorNext(fv \ {first}, sortBy)

Reverse(seq) == [k \in 1..Len(seq) |-> seq[Len(seq) + 1 - k]]

cursorAllAscending(fv, sortBy, order) == cursorNext(fv, sortBy)

\* getAllFavorites, part_005 lines 135-147
cursorAll(fv, sortBy, order) ==
    IF order = "desc" THEN Reverse(cursorNext(fv, sortBy))
    ELSE cursorNext(fv, sortBy)

\* String.prototype.replace with a string pattern: the first occurrence
RECURSIVE replaceFirst(_, _, _)
replaceFirst(str, p, r) ==
    IF Len(str) < Len(p) THEN str
    ELSE IF startsWith(str, p) THEN r \o SubSeq(str, Len(p) + 1, Len(str))
    ELSE <<Head(str)>> \o replaceFirst(Tail(str), p, r)

PreviewPath == <<"/","i","m","a","g","e","s","/","p","r","e","v","i","e","w","/">>

\* cache.ts line 113
previewUrl(thumb) ==
    CHOOSE u \in Urls :
        UrlOf[u] = [UrlOf[thumb] EXCEPT
                       !.pathname = replaceFirst(@, ImagesPath, PreviewPath)]

\* cache.ts line 118
apiUrl(idMeal) ==
    KeyOfPath(<<"/","a","p","i","/","m","e","a","l","/">> \o idMeal)

\* the hydrator calls of cacheMealForOffline, cache.ts lines 107-119
hydrationCalls(meal) ==
    (IF meal.strMealThumb # 0
     THEN << [fn |-> "cacheImage", url |-> meal.strMealThumb],
             [fn |-> "cacheImage", url |-> previewUrl(meal.strMealThumb)] >>
     ELSE <<>>)
    \o << [fn |-> "cacheApiResponse", url |-> apiUrl(meal.idMeal)] >>

\* the storage and the slot after the first steps of a hydrator call
hydrationOpen(st, call) ==
    IF call.fn = "cacheImage" THEN CachesOpen(st, HydratorCaches.images)
    ELSE CachesOpen(st, HydratorCaches.dynamic)

hydrationTask(st, call) ==
    IF call.fn = "cacheImage"
    THEN imageTask(CachesOpen(st, HydratorCaches.images), call.url)
    ELSE apiTask(st, call.url)

\* cacheMealForOffline goes on to its next call when the one before returned
HydrateNext(i) ==
    /\ tasks[i].chain # <<>>
    /\ tasks[i].pc = "done"
    /\ tasks[i].put # "pending"
    /\ LET call == Head(tasks[i].chain) IN
       /\ storage' = hydrationOpen(storage, call)
       /\ tasks' = [tasks EXCEPT ![i] =
             [hydrationTask(storage, call) EXCEPT !.chain = Tail(tasks[i].chain)]]

\* a hydrator call whose caches.open rejected: its catch has logged and the
\* call has returned (cache.ts lines 35-37 and 90-92)
unopenedTask(call) ==
    [Idle EXCEPT !.kind = IF call.fn = "cacheImage" THEN "hydImg" ELSE "hydApi",
                 !.req = Req("GET", call.url, "cors"), !.pc = "done",
                 !.put = "unopened", !.logged = "warn"]

\* cacheMealForOffline goes on to a call whose caches.open rejects
HydrateNextUnopened(i) ==
    /\ tasks[i].chain # <<>>
    /\ tasks[i].pc = "done"
    /\ tasks[i].put # "pending"
    /\ tasks' = [tasks EXCEPT ![i] =
          [unopenedTask(Head(tasks[i].chain)) EXCEPT !.chain = Tail(tasks[i].chain)]]
    /\ UNCHANGED storage

Running == {o \in OpSlots : ops[o].pc # "idle"}

\* A favorites function is called: it takes the first slot that is free.
Call(o, fn, meal, id, sortBy, order) ==
    /\ ops[o].pc = "idle"
    /\ \A q \in 1..(o - 1) : ops[q].pc # "idle"
    /\ arrived < MaxCalls
    /\ arrived' = arrived + 1
    /\ ops' = [ops EXCEPT ![o] =
          [IdleOp EXCEPT !.fn = fn,
                         !.sub = IF fn = "toggleFavorite" THEN "isFavorite" ELSE fn,
                         !.meal = meal, !.id = id, !.sortBy = sortBy,
                         !.order = order, !.pc = "getDB"]]
    /\ UNCHANGED <<storage, tasks, favs, db, clock, log>>

\* the calls the page makes
CallAny(o) ==
    \/ \E m \in Meals : Call(o, "saveFavorite", m, m.idMeal, "-", "-")
    \/ \E m \in Meals : Call(o, "toggleFavorite", m, m.idMeal, "-", "-")
    \/ \E id \in MealIds :
         \E fn \in {"removeFavorite", "getFavorite", "isFavorite"} :
            Call(o, fn, NoMeal, id, "-", "-")
    \/ \E sortBy \in {"date", "name"} : \E order \in {"asc", "desc"} :
          Call(o, "getAllFavorites", NoMeal, <<>>, sortBy, order)
    \/ \E fn \in {"getFavoritesCount", "clearAllFavorites"} :
          Call(o, fn, NoMeal, <<>>, "-", "-")

\* getDB, part_005 lines 40-43: dbInstance is set
GetDB(o) ==
    /\ ops[o].pc = "getDB"
    /\ ops' = [ops EXCEPT ![o] =
          IF db.instance # 0
          THEN [@ EXCEPT !.handle = db.instance, !.pc = "tx"]
          ELSE [@ EXCEPT !.pc = "opening"]]
    /\ UNCHANGED <<storage, tasks, arrived, favs, db, clock, log>>

\* getDB, part_005 lines 45-69: openDB settles with a new connection
Opened(o) ==
    /\ ops[o].pc = "opening"
    /\ db.conflict = "none"
    /\ db' = [db EXCEPT !.instance = db.opened + 1, !.opened = db.opened + 1]
    /\ ops' = [ops EXCEPT ![o] = [@ EXCEPT !.handle = db.opened + 1, !.pc = "tx"]]
    /\ UNCHANGED <<storage, tasks, arrived, favs, clock, log>>

handleAfterRejectAssigned(instance) == instance + 1

\* dbInstance when openDB has rejected, part_005 line 45: the await throws
\* and the assignment does not take place
handleAfterReject(instance) == instance

\* getDB, part_005 line 45: openDB rejects with a VersionError, the stored
\* database being of a higher version than DB_VERSION; getDB throws
OpenRejected(o) ==
    /\ ops[o].pc = "opening"
    /\ db.conflict = "newer"
    /\ db' = [db EXCEPT !.instance = handleAfterReject(db.instance)]
    /\ ops' = [ops EXCEPT ![o] = [@ EXCEPT !.result = "VersionError", !.pc = "thrown"]]
    /\ UNCHANGED <<storage, tasks, arrived, favs, clock, log>>

\* getDB, part_005 lines 56-58: the open request waits for the other
\* context and the blocked callback warns
OpenBlocked(o) ==
    /\ ops[o].pc = "opening"
    /\ db.conflict = "blocked"
    /\ ops' = [ops EXCEPT ![o] = [@ EXCEPT !.pc = "blocked"]]
    /\ UNCHANGED <<storage, tasks, arrived, favs, db, clock, log>>

\* the other context closes its connection
OtherCloses ==
    /\ db.conflict = "blocked"
    /\ db' = [db EXCEPT !.conflict = "none"]
    /\ UNCHANGED <<storage, tasks, arrived, favs, clock, ops, log>>

\* the open request that waited goes on
Unblocked(o) ==
    /\ ops[o].pc = "blocked"
    /\ db.conflict = "none"
    /\ ops' = [ops EXCEPT ![o] = [@ EXCEPT !.pc = "opening"]]
    /\ UNCHANGED <<storage, tasks, arrived, favs, db, clock, log>>

\* the connections of this page that are open
OpenHandles == (1..db.opened) \ (db.closed \cup db.terminated)

\* the request a function made on a connection is still running
InFlight(h) == \E o \in OpSlots : ops[o].pc = "tx" /\ ops[o].handle = h

\* dbInstance after the blocking callback, part_005 line 62
blockingClears(instance) == 0

\* Another context asks for a higher version of the database: versionchange
\* reaches the open connections and the blocking callback closes dbInstance
\* and unsets it, part_005 lines 59-63.  A function takes the handle and
\* makes its request in one turn of the event loop, so the callback never
\* runs between the two; close() lets the requests that are running finish.
Blocking ==
    /\ OpenHandles # {}
    /\ db.conflict = "none"
    /\ db' = [db EXCEPT
          !.instance = blockingClears(@),
          !.closed = IF db.instance # 0 THEN @ \cup {db.instance} ELSE @,
          !.conflict = "upgrading"]
    /\ UNCHANGED <<storage, tasks, arrived, favs, clock, ops, log>>

\* the other context upgrades when this page has no open connection and no
\* running request left; from then on the stored version is above DB_VERSION
OtherUpgrades ==
    /\ db.conflict = "upgrading"
    /\ OpenHandles = {}
    /\ \A h \in db.closed : ~InFlight(h)
    /\ db' = [db EXCEPT !.conflict = "newer"]
    /\ UNCHANGED <<storage, tasks, arrived, favs, clock, ops, log>>

\* the browser ends a connection abnormally: the terminated callback unsets
\* dbInstance, part_005 lines 64-66
Terminated(h) ==
    /\ h \in OpenHandles
    /\ db' = [db EXCEPT !.instance = 0, !.terminated = @ \cup {h}]
    /\ UNCHANGED <<storage, tasks, arrived, favs, clock, ops, log>>

\* the request that was running on a connection that ended is aborted and
\* the function rejects: no function catches (part_005 lines 79-164)
TxAborted(o) ==
    /\ ops[o].pc = "tx"
    /\ ops[o].handle \in db.terminated
    /\ ops' = [ops EXCEPT ![o] =
          [@ EXCEPT !.result = "AbortError", !.pc = "thrown"]]
    /\ UNCHANGED <<storage, tasks, arrived, favs, db, clock, log>>

readResultIfHydrated(sub, fv, st, id) ==
    LET found == IF CachesMatch(st, apiUrl(id)) # None THEN dbGet(fv, id)
                 ELSE NoRecord IN
    IF sub = "isFavorite" THEN found # NoRecord ELSE found

\* what getFavorite and isFavorite return, part_005 lines 110-122: the
\* result of db.get on the object store; st, the caches, has no part in it
readResult(sub, fv, st, id) ==
    IF sub = "isFavorite" THEN dbGet(fv, id) # NoRecord ELSE dbGet(fv, id)

\* saveFavorite builds its record and puts it, part_005 lines 83-89.
\* Date.now() returns a time not before the one it returned last.
SaveTx(o) ==
    /\ ops[o].pc = "tx"
    /\ ops[o].sub = "saveFavorite"
    /\ ops[o].handle \notin db.terminated
    /\ \E now \in clock..MaxClock :
          /\ clock' = now
          /\ favs' = dbPut(favs, withSavedAt(ops[o].meal, now))
          /\ ops' = [ops EXCEPT ![o] =
                [@ EXCEPT !.stamp = now, !.result = "ok", !.pc = "ret"]]
    /\ UNCHANGED <<storage, tasks, arrived, db, log>>

\* The request of any other function on the object store.  Requests on one
\* store take effect in the order they are made.
Tx(o) ==
    /\ ops[o].pc = "tx"
    /\ ops[o].sub # "saveFavorite"
    /\ ops[o].handle \notin db.terminated
    /\ LET op == ops[o] IN
       CASE op.sub = "removeFavorite" ->
               /\ favs' = dbDelete(favs, op.id)
               /\ ops' = [ops EXCEPT ![o] = [op EXCEPT !.result = "ok", !.pc = "ret"]]
         [] op.sub = "clearAllFavorites" ->
               /\ favs' = {}
               /\ ops' = [ops EXCEPT ![o] = [op EXCEPT !.result = "ok", !.pc = "ret"]]
         [] op.sub \in {"getFavorite", "isFavorite"} ->
               /\ ops' = [ops EXCEPT ![o] =
                     [op EXCEPT !.result = readResult(op.sub, favs, storage, op.id),
                                !.pc = "ret"]]
               /\ UNCHANGED favs
         [] op.sub = "getAllFavorites" ->
               /\ ops' = [ops EXCEPT ![o] =
                     [op EXCEPT !.result = cursorAll(favs, op.sortBy, op.order),
                                !.pc = "ret"]]
               /\ UNCHANGED favs
         [] op.sub = "getFavoritesCount" ->
               /\ ops' = [ops EXCEPT ![o] =
                     [op EXCEPT !.result = dbCount(favs), !.pc = "ret"]]
               /\ UNCHANGED favs
    /\ UNCHANGED <<storage, tasks, arrived, db, clock, log>>

\* what a call returns to the page
Returned(op) ==
    CASE op.fn = "toggleFavorite" -> op.sub = "saveFavorite"
      [] op.fn \in {"saveFavorite", "removeFavorite", "clearAllFavorites"} -> "void"
      [] OTHER -> op.result

Entry(op) ==
    [fn |-> op.fn, meal |-> op.meal, id |-> op.id, sortBy |-> op.sortBy,
     order |-> op.order, result |-> Returned(op), stamp |-> op.stamp]

Logged(op) ==
    LET all == Append(log, Entry(op)) IN
    IF Len(all) > MaxLog THEN Tail(all) ELSE all

toggleBranchAlwaysSaves(exists) == "saveFavorite"

\* the function toggleFavorite calls next, part_005 lines 174-180
toggleBranch(exists) ==
    IF exists THEN "removeFavorite" ELSE "saveFavorite"

\* toggleFavorite after isFavorite, part_005 lines 172-180
ToggleDecides(o) ==
    /\ ops[o].pc = "ret"
    /\ ops[o].fn = "toggleFavorite"
    /\ ops[o].sub = "isFavorite"
    /\ ops' = [ops EXCEPT ![o] =
          [@ EXCEPT !.sub = toggleBranch(ops[o].result), !.pc = "getDB"]]
    /\ UNCHANGED <<storage, tasks, arrived, favs, db, clock, log>>

afterLaunchAwaits(op) == [op EXCEPT !.pc = "hydrating"]

\* the slot of saveFavorite when it has called cacheMealForOffline, part_005
\* lines 92-95: the promise is not awaited and the function is at its end
afterLaunch(op) == IdleOp

\* saveFavorite after its put, part_005 lines 91-94: cacheMealForOffline is
\* started and not awaited
SaveReturns(o) ==
    /\ ops[o].pc = "ret"
    /\ ops[o].sub = "saveFavorite"
    /\ \E i \in Slots :
          /\ FreeSlot(i)
          /\ LET calls == hydrationCalls(ops[o].meal) IN
             /\ storage' = hydrationOpen(storage, Head(calls))
             /\ tasks' = Install(i,
                   [hydrationTask(storage, Head(calls)) EXCEPT !.chain = Tail(calls)])
    /\ log' = Logged(ops[o])
    /\ ops' = [ops EXCEPT ![o] = afterLaunch(ops[o])]
    /\ UNCHANGED <<arrived, favs, db, clock>>

\* the same when caches.open of the first hydrator call rejects: the catch
\* of that call logs and returns (cache.ts lines 35-37)
SaveReturnsUnopened(o) ==
    /\ ops[o].pc = "ret"
    /\ ops[o].sub = "saveFavorite"
    /\ \E i \in Slots :
          /\ FreeSlot(i)
          /\ LET calls == hydrationCalls(ops[o].meal) IN
             tasks' = Install(i,
                   [unopenedTask(Head(calls)) EXCEPT !.chain = Tail(calls)])
    /\ log' = Logged(ops[o])
    /\ ops' = [ops EXCEPT ![o] = afterLaunch(ops[o])]
    /\ UNCHANGED <<storage, arrived, favs, db, clock>>

\* the function called rejects with what getDB threw: every favorites
\* function awaits getDB first and catches nothing (part_005 lines 80, 102,
\* 111, 133, 154, 162), and toggleFavorite awaits them (lines 172-178)
Rejects(o) ==
    /\ ops[o].pc = "thrown"
    /\ log' = LET all == Append(log, [Entry(ops[o]) EXCEPT !.result = "rejected"]) IN
              IF Len(all) > MaxLog THEN Tail(all) ELSE all
    /\ ops' = [ops EXCEPT ![o] = IdleOp]
    /\ UNCHANGED <<storage, tasks, arrived, favs, db, clock>>

\* any other function returns
Returns(o) ==
    /\ ops[o].pc = "ret"
    /\ ops[o].sub # "saveFavorite"
    /\ ~(ops[o].fn = "toggleFavorite" /\ ops[o].sub = "isFavorite")
    /\ log' = Logged(ops[o])
    /\ ops' = [ops EXCEPT ![o] = IdleOp]
    /\ UNCHANGED <<storage, tasks, arrived, favs, db, clock>>

\* ------------------------------------------------------------------------
\* Specifications
\* ------------------------------------------------------------------------
\* the requests the page issues
PageReqs == {ReqApi, ReqImage, ReqPage, ReqScript, ReqPost, ReqExt}

Arrive(i) ==
    /\ \/ \E request \in PageReqs : FetchEvent(i, request)
       \/ cacheApiResponse(i, ReqApi.url)
       \/ cacheImage(i, ReqImage.url)
    /\ arrived' = arrived + 1
    /\ UNCHANGED <<worker, storeVars>>

Progress(i) ==
    /\ \/ \E out \in Outcomes : NetworkFirstFetched(i, out)
       \/ \E out \in Outcomes : NavigationFetched(i, out)
       \/ NavigationRoot(i)
       \/ NavigationOffline(i)
       \/ \E out \in Outcomes : CacheFirstFetched(i, out)
       \/ \E out \in Outcomes : RevalidateFetched(i, out)
       \/ \E out \in Outcomes : ImageFetched(i, out)
       \/ PutCommit(i)
       \/ LimitRead(i)
       \/ LimitDelete(i)
    /\ UNCHANGED <<arrived, worker, storeVars>>

Next == \E i \in Slots : (arrived < MaxArrivals /\ Arrive(i)) \/ Progress(i)

Spec == Init /\ [][Next]_vars

\* One request at a time: a request arrives only when nothing is in flight
\* and the other slots are empty.
SoloArrive(i) ==
    /\ arrived < MaxSoloArrivals
    /\ Quiescent
    /\ Arrive(i)

NextSolo == \E i \in Slots : SoloArrive(i) \/ Progress(i)

SpecSolo == Init /\ [][NextSolo]_vars

\* Navigations alone, over caches that hold the page, the site root, only the
\* offline document, or nothing
ReqHome == Req("GET", 5, "navigate")

NavReqs == {ReqPage, ReqHome}

NavStorages ==
    { << Cache(STATIC_CACHE, Precached) >>,
      << Cache(STATIC_CACHE, <<>>) >>,
      << Cache(STATIC_CACHE, <<>>),
         Cache(DYNAMIC_CACHE, <<[key |-> KeyOfPath(OfflinePath), body |-> "old"]>>) >>,
      << Cache(STATIC_CACHE, Precached),
         Cache(DYNAMIC_CACHE, <<[key |-> ReqPage.url, body |-> "old"]>>) >> }

InitNav ==
    /\ storage \in NavStorages
    /\ tasks = [i \in Slots |-> Idle]
    /\ arrived = 0
    /\ worker = ActiveWorker
    /\ StoreUnused

NavArrive(i) ==
    /\ arrived < MaxArrivals
    /\ \E request \in NavReqs : FetchEvent(i, request)
    /\ arrived' = arrived + 1
    /\ UNCHANGED <<worker, storeVars>>

NavProgress(i) ==
    /\ \/ \E out \in Outcomes : NavigationFetched(i, out)
       \/ NavigationRoot(i)
       \/ NavigationOffline(i)
       \/ PutCommit(i)
    /\ UNCHANGED <<arrived, worker, storeVars>>

NextNav == \E i \in Slots : NavArrive(i) \/ NavProgress(i)

SpecNav == InitNav /\ [][NextNav]_vars

\* A new worker is installed and activated over the caches of an earlier
\* version and of other code, and receives messages
OldCaches ==
    << Cache(StaleStatic, <<[key |-> KeyOfPath(RootPath), body |-> "old"]>>),
       Cache(DYNAMIC_CACHE, <<[key |-> ReqApi.url, body |-> "old"]>>),
       Cache(ForeignCache, <<[key |-> ReqScript.url, body |-> "old"]>>),
       Cache(StaleImages, <<>>),
       Cache(NearPrefix, <<[key |-> ReqImage.url, body |-> "old"]>>) >>

\* the members of seq at the positions in keep, in order
RECURSIVE Pick(_, _)
Pick(seq, keep) ==
    IF seq = <<>> THEN <<>>
    ELSE (IF Len(seq) \in keep THEN Pick(SubSeq(seq, 1, Len(seq) - 1), keep)
                                      \o <<seq[Len(seq)]>>
          ELSE Pick(SubSeq(seq, 1, Len(seq) - 1), keep))

LifeStorages == {Pick(OldCaches, keep) : keep \in SUBSET (1..Len(OldCaches))}

InitLife ==
    /\ storage \in LifeStorages
    /\ tasks = [i \in Slots |-> Idle]
    /\ arrived = 0
    /\ worker = NewWorker
    /\ StoreUnused

LifeStep ==
    \/ InstallEvent
    \/ \E ok \in BOOLEAN : InstallOpened(ok)
    \/ \E ok \in BOOLEAN : InstallAddedAll(ok)
    \/ InstallSkipWaiting
    \/ InstallCaught
    \/ InstallDone
    \/ ActivateEvent
    \/ ActivateKeys
    \/ \E name \in worker.doomed : ActivateDelete(name)
    \/ ActivateClaim
    \/ ActivateDone

MessageStep ==
    \/ \E type \in MessageTypes : Message(type)
    \/ ClearKeys
    \/ \E name \in worker.mdoomed : ClearDelete(name)
    \/ ClearDone

NextLife ==
    /\ LifeStep \/ MessageStep
    /\ UNCHANGED <<tasks, arrived, storeVars>>

SpecLife == InitLife /\ [][NextLife]_vars

\* The same with cache operations of the activate handler that reject
NextActivate ==
    /\ LifeStep \/ MessageStep \/ ActivateRejected
    /\ UNCHANGED <<tasks, arrived, storeVars>>

SpecActivate == InitLife /\ [][NextActivate]_vars

\* The favorites functions called one after the other, each after the
\* hydration started by the one before has finished
StoreStorages ==
    { << Cache(STATIC_CACHE, Precached) >>,
      << Cache(STATIC_CACHE, Precached),
         Cache(IMAGE_CACHE, <<[key |-> ReqImage.url, body |-> "old"]>>) >> }

InitFavs == { {}, {withSavedAt(MealTwo, 0)} }

\* what earlier sessions stored: as InitFavs, or a meal saved at the time
\* the clock still shows
StoreFavs == InitFavs \cup { {withSavedAt(MealOne, 1)} }

InitStore ==
    /\ storage \in StoreStorages
    /\ tasks = [i \in Slots |-> Idle]
    /\ arrived = 0
    /\ worker = ActiveWorker
    /\ favs \in StoreFavs
    /\ db = ClosedDb
    /\ clock = 1
    /\ ops = [o \in OpSlots |-> IdleOp]
    /\ log = <<>>

SoloCall(o) ==
    /\ Running = {}
    /\ Quiescent
    /\ CallAny(o)

OpStep(o) ==
    \/ GetDB(o)
    \/ Opened(o)
    \/ SaveTx(o)
    \/ Tx(o)
    \/ ToggleDecides(o)
    \/ SaveReturns(o)
    \/ Returns(o)

\* the fetch of an image answers with one body, with a status that is not
\* ok, or fails
HydrateOutcomes == {out \in Outcomes : out.net = "ok" => out.body = "b1"}

HydrateStep(i) ==
    /\ \/ \E out \in HydrateOutcomes : ImageFetched(i, out)
       \/ PutCommit(i)
       \/ HydrateNext(i)
    /\ UNCHANGED <<arrived, storeVars>>

NextStore ==
    /\ \/ \E o \in OpSlots : SoloCall(o) \/ OpStep(o)
       \/ \E i \in Slots : HydrateStep(i)
    /\ UNCHANGED worker

SpecStore == InitStore /\ [][NextStore]_vars

\* Requests of the API, a page and a script, one at a time, with cache
\* operations that fail: caches.open after the fetch, the put, and
\* limitCacheSize
FaultReqs == {ReqApi, ReqPage, ReqScript}

FaultArrive(i) ==
    /\ arrived < MaxSoloArrivals
    /\ Quiescent
    /\ \E request \in FaultReqs : FetchEvent(i, request)
    /\ arrived' = arrived + 1
    /\ UNCHANGED <<worker, storeVars>>

FaultProgress(i) ==
    /\ \/ \E out \in Outcomes : NetworkFirstFetched(i, out)
       \/ \E out \in Outcomes : NavigationFetched(i, out)
       \/ NavigationRoot(i)
       \/ NavigationOffline(i)
       \/ \E out \in Outcomes : CacheFirstFetched(i, out)
       \/ PutCommit(i)
       \/ LimitRead(i)
       \/ LimitDelete(i)
    /\ UNCHANGED <<arrived, worker, storeVars>>

FaultStep(i) ==
    /\ \/ \E out \in Outcomes : NetworkFirstUnopened(i, out)
       \/ \E out \in Outcomes : CacheFirstUnopened(i, out)
       \/ \E out \in Outcomes : NavigationUnopened(i, out)
       \/ PutFails(i)
       \/ LimitFails(i)
    /\ UNCHANGED <<arrived, worker, storeVars>>

NextFault == \E i \in Slots : FaultArrive(i) \/ FaultProgress(i) \/ FaultStep(i)

SpecFault == Init /\ [][NextFault]_vars

\* limitCacheSize next to the puts of overlapping Network-First requests, on
\* a dynamic cache that is full or over its limit (where puts that
\* landed behind an earlier limitCacheSize left it), or full with the entry
\* of an earlier answer to one of the requests as its oldest.  The steps of a running
\* limitCacheSize are taken in the end: the host settles every cache
\* operation.
LimitStorages ==
    { << Cache(STATIC_CACHE, Precached),
         Cache(DYNAMIC_CACHE, Fill(MAX_DYNAMIC_CACHE_SIZE)) >>,
      << Cache(STATIC_CACHE, Precached),
         Cache(DYNAMIC_CACHE, Fill(MAX_DYNAMIC_CACHE_SIZE + 2)) >>,
      << Cache(STATIC_CACHE, Precached),
         Cache(DYNAMIC_CACHE,
               << [key |-> apiUrl(MealOne.idMeal), body |-> "old"] >>
                 \o Fill(MAX_DYNAMIC_CACHE_SIZE - 1)) >> }

InitLimit ==
    /\ storage \in LimitStorages
    /\ tasks = [i \in Slots |-> Idle]
    /\ arrived = 0
    /\ worker = ActiveWorker
    /\ StoreUnused

LimitArrive(i) ==
    /\ arrived < MaxArrivals
    /\ \E m \in {MealOne, MealTwo} :
          FetchEvent(i, Req("GET", apiUrl(m.idMeal), "cors"))
    /\ arrived' = arrived + 1
    /\ UNCHANGED <<worker, storeVars>>

LimitFetched(i) ==
    /\ NetworkFirstFetched(i, [net |-> "ok", body |-> "b1"])
    /\ UNCHANGED <<arrived, worker, storeVars>>

LimitPut(i) ==
    /\ PutCommit(i)
    /\ UNCHANGED <<arrived, worker, storeVars>>

LimitProgress(i) ==
    /\ LimitRead(i) \/ LimitDelete(i)
    /\ UNCHANGED <<arrived, worker, storeVars>>

NextLimit ==
    \E i \in Slots :
        LimitArrive(i) \/ LimitFetched(i) \/ LimitPut(i) \/ LimitProgress(i)

SpecLimit == InitLimit /\ [][NextLimit]_vars

\* limitCacheSize as a function of its arguments: called with any limit
\* from 0 to MaxLimit on a dynamic cache of any size up to MaxFill, while
\* the hydrator's cacheApiResponse puts into the same cache and other calls
\* of limitCacheSize run.  The number of calls, and so of puts, is bounded.
\* Every cache operation a running limitCacheSize waits for is settled by
\* the host in the end: its steps are weakly fair.
MaxLimit == 1

MaxFill == 2

InitLimitCall ==
    /\ storage \in { << Cache(DYNAMIC_CACHE, Fill(n)) >> : n \in 0..MaxFill }
    /\ tasks = [i \in Slots |-> Idle]
    /\ arrived = 0
    /\ worker = ActiveWorker
    /\ StoreUnused

LimitCall(i) ==
    /\ arrived < MaxArrivals
    /\ \E maxItems \in 0..MaxLimit : limitCacheSize(i, maxItems)
    /\ arrived' = arrived + 1
    /\ UNCHANGED <<worker, storeVars>>

LimitCallPut(i) ==
    /\ arrived < MaxArrivals
    /\ \E m \in {MealOne, MealTwo} : cacheApiResponse(i, apiUrl(m.idMeal))
    /\ arrived' = arrived + 1
    /\ UNCHANGED <<worker, storeVars>>

NextLimitCall ==
    \E i \in Slots :
        LimitCall(i) \/ LimitCallPut(i) \/ LimitPut(i) \/ LimitProgress(i)

SpecLimitCall ==
    /\ InitLimitCall
    /\ [][NextLimitCall]_vars
    /\ \A i \in Slots : WF_vars(LimitProgress(i))

\* Calls of apiFetch, one at a time, from a page the worker controls and
\* from one it does not.  The server may answer 200 with a body that is no
\* JSON (the page of the app), or with the JSON value null.
ApiStorages ==
    { << Cache(STATIC_CACHE, Precached) >>,
      << Cache(STATIC_CACHE, Precached),
         Cache(DYNAMIC_CACHE, <<[key |-> ReqApi.url, body |-> "old"]>>) >> }

ApiOutcomes == Outcomes \cup {[net |-> "ok", body |-> "html"]}

DirectOutcomes ==
    {Responded(status, body) :
        status \in {200, 299, 300, 404, 503},
        body \in {"data", NetNotOk.body, "null", "html"}}
      \cup {Rejected("TypeError", FailedToFetch),
            Rejected("TypeError", LoadFailed),
            Rejected("AbortError", <<>>)}

InitApi ==
    /\ storage \in ApiStorages
    /\ tasks = [i \in Slots |-> Idle]
    /\ arrived = 0
    /\ worker = ActiveWorker
    /\ StoreUnused

ApiArrive(i) ==
    /\ arrived < MaxSoloArrivals
    /\ Quiescent
    /\ \E u \in ApiUrls : ApiFetchCall(i, u) \/ ApiFetchDirect(i, u)
    /\ arrived' = arrived + 1
    /\ UNCHANGED <<worker, storeVars>>

ApiProgress(i) ==
    /\ \/ \E out \in ApiOutcomes : NetworkFirstFetched(i, out)
       \/ PutCommit(i)
       \/ LimitRead(i)
       \/ ApiFetchSettles(i)
       \/ \E f \in DirectOutcomes : DirectSettles(i, f)
    /\ UNCHANGED <<arrived, worker, storeVars>>

NextApi == \E i \in Slots : ApiArrive(i) \/ ApiProgress(i)

SpecApi == InitApi /\ [][NextApi]_vars

\* Queries, one at a time, whose every attempt may settle with any of the
\* outcomes of a fetch
QueryArrive(i) ==
    /\ arrived < MaxArrivals
    /\ \A j \in Slots : tasks[j].query # "fetching"
    /\ \E u \in ApiUrls : QueryStart(i, u)
    /\ arrived' = arrived + 1
    /\ UNCHANGED <<worker, storeVars>>

QueryProgress(i) ==
    /\ \/ \E f \in DirectOutcomes : DirectSettles(i, f)
       \/ QuerySettles(i)
    /\ UNCHANGED <<arrived, worker, storeVars>>

NextQuery == \E i \in Slots : QueryArrive(i) \/ QueryProgress(i)

SpecQuery == InitApi /\ [][NextQuery]_vars

\* The favorites functions, one at a time, on a database that opens, that
\* was stored by newer code, or that another context holds open while it
\* needs its first upgrade (it holds no record then)
InitSchema ==
    /\ storage = << Cache(STATIC_CACHE, Precached) >>
    /\ tasks = [i \in Slots |-> Idle]
    /\ arrived = 0
    /\ worker = ActiveWorker
    /\ favs \in StoreFavs
    /\ \E c \in {"none", "newer", "blocked"} :
          /\ db = [ClosedDb EXCEPT !.conflict = c]
          /\ c = "blocked" => favs = {}
    /\ clock = 1
    /\ ops = [o \in OpSlots |-> IdleOp]
    /\ log = <<>>

SchemaStep(o) ==
    \/ SoloCall(o)
    \/ OpStep(o)
    \/ OpenRejected(o)
    \/ OpenBlocked(o)
    \/ Unblocked(o)
    \/ Rejects(o)

NextSchema ==
    /\ \/ \E o \in OpSlots : SchemaStep(o)
       \/ OtherCloses
       \/ \E i \in Slots : HydrateStep(i)
    /\ UNCHANGED worker

SpecSchema == InitSchema /\ [][NextSchema]_vars

\* Toggles, saves and removes of one ID by several callers at once: a call
\* may start while others are running, and their steps interleave.  The
\* hydration a save starts stays in flight: its steps read and write the
\* caches only.
RaceFavs == { {}, {withSavedAt(MealOne, 1)} }

InitRace ==
    /\ storage = << Cache(STATIC_CACHE, Precached) >>
    /\ tasks = [i \in Slots |-> Idle]
    /\ arrived = 0
    /\ worker = ActiveWorker
    /\ favs \in RaceFavs
    /\ db = ClosedDb
    /\ clock = 1
    /\ ops = [o \in OpSlots |-> IdleOp]
    /\ log = <<>>

RaceCall(o) ==
    \/ \E m \in {MealOne, MealOneRenamed} :
          Call(o, "toggleFavorite", m, m.idMeal, "-", "-")
    \/ Call(o, "saveFavorite", MealOne, MealOne.idMeal, "-", "-")
    \/ Call(o, "removeFavorite", NoMeal, MealOne.idMeal, "-", "-")

NextRace ==
    /\ \E o \in OpSlots : RaceCall(o) \/ OpStep(o)
    /\ UNCHANGED worker

SpecRace == InitRace /\ [][NextRace]_vars

\* Toggles of one meal that is not a favorite at first, by two callers at
\* once, up to MaxToggles calls: a toggle may start while another is
\* running, and their steps interleave.  The hydration a save starts reads
\* and writes the caches only; it is run to its end before the next step
\* of a toggle.
MaxToggles == 4

ToggleCall(o) ==
    /\ ops[o].pc = "idle"
    /\ \A q \in 1..(o - 1) : ops[q].pc # "idle"
    /\ arrived < MaxToggles
    /\ arrived' = arrived + 1
    /\ ops' = [ops EXCEPT ![o] =
          [IdleOp EXCEPT !.fn = "toggleFavorite", !.sub = "isFavorite",
                         !.meal = MealOne, !.id = MealOne.idMeal,
                         !.pc = "getDB"]]
    /\ UNCHANGED <<storage, tasks, favs, db, clock, log>>

InitToggle ==
    /\ storage = << Cache(STATIC_CACHE, Precached) >>
    /\ tasks = [i \in Slots |-> Idle]
    /\ arrived = 0
    /\ worker = ActiveWorker
    /\ favs = {}
    /\ db = ClosedDb
    /\ clock = 1
    /\ ops = [o \in OpSlots |-> IdleOp]
    /\ log = <<>>

ToggleStep(o) ==
    /\ Quiescent
    /\ ToggleCall(o) \/ OpStep(o)

ToggleHydrate(i) ==
    /\ \/ ImageFetched(i, [net |-> "ok", body |-> "b1"])
       \/ PutCommit(i)
       \/ HydrateNext(i)
    /\ UNCHANGED <<arrived, storeVars>>

NextToggle ==
    /\ \/ \E o \in OpSlots : ToggleStep(o)
       \/ \E i \in Slots : ToggleHydrate(i)
    /\ UNCHANGED worker

SpecToggle == InitToggle /\ [][NextToggle]_vars

\* Calls of cacheImage and cacheImages by the page, on an image cache that
\* is absent or holds one of the images, with fetches that answer ok, not
\* ok or fail, puts that are rejected and a cache that cannot be opened.
\* The lists given to cacheImages hold an image twice and the empty string.
ImageLists ==
    { <<ReqImage.url, ThumbTwo>>, <<ReqImage.url, ReqImage.url>>,
      <<0, ThumbTwo>>, <<ThumbTwo, 0, ReqImage.url, ThumbTwo>> }

cacheImageUnopened(i, url) ==
    /\ FreeSlot(i)
    /\ tasks' = Install(i, unopenedTask([fn |-> "cacheImage", url |-> url]))
    /\ UNCHANGED storage

ImagesArrive ==
    /\ arrived < MaxArrivals
    /\ \/ \E imageUrls \in ImageLists :
            cacheImages(imageUrls) \/ cacheImagesUnopened(imageUrls)
       \/ \E i \in Slots : \E url \in {ReqImage.url, ThumbTwo} :
            cacheImage(i, url) \/ cacheImageUnopened(i, url)
    /\ arrived' = arrived + 1
    /\ UNCHANGED <<worker, storeVars>>

ImagesProgress(i) ==
    /\ \/ \E out \in HydrateOutcomes : ImageFetched(i, out)
       \/ PutCommit(i)
       \/ PutFails(i)
    /\ UNCHANGED <<arrived, worker, storeVars>>

NextImages == ImagesArrive \/ \E i \in Slots : ImagesProgress(i)

SpecImages == InitStore /\ [][NextImages]_vars

\* Saves and toggles of one meal while its hydration runs, with caches that
\* cannot be opened, puts that are rejected and image fetches that fail
HydrateCall(o) ==
    \/ Call(o, "saveFavorite", MealOne, MealOne.idMeal, "-", "-")
    \/ Call(o, "toggleFavorite", MealOne, MealOne.idMeal, "-", "-")
    \/ Call(o, "getFavorite", NoMeal, MealOne.idMeal, "-", "-")

HydrateOpStep(o) ==
    \/ Running = {} /\ HydrateCall(o)
    \/ OpStep(o)
    \/ SaveReturnsUnopened(o)

HydrateFaultStep(i) ==
    /\ \/ HydrateStep(i)
       \/ (PutFails(i) \/ HydrateNextUnopened(i)) /\ UNCHANGED <<arrived, storeVars>>

NextHydrate ==
    /\ \/ \E o \in OpSlots : HydrateOpStep(o)
       \/ \E i \in Slots : HydrateFaultStep(i)
    /\ UNCHANGED worker

SpecHydrate == InitStore /\ [][NextHydrate]_vars

\* The favorites functions next to what removes caches and cache entries:
\* the eviction after a Network-First request on a full dynamic cache, the
\* activation of a worker that has been installed over the caches of an
\* earlier version, and CLEAR_CACHE.  A request, a worker event or a
\* favorites call starts when the ones before have finished; the hydration
\* a save started may still be running.
IndepStorage ==
    << Cache(STATIC_CACHE, Precached),
       Cache(StaleStatic, <<[key |-> KeyOfPath(RootPath), body |-> "old"]>>),
       Cache(DYNAMIC_CACHE, Fill(MAX_DYNAMIC_CACHE_SIZE)) >>

InstalledWorker ==
    [NewWorker EXCEPT !.phase = "installed", !.outcome = "resolved",
                      !.skipWaiting = TRUE]

InitIndep ==
    /\ storage = IndepStorage
    /\ tasks = [i \in Slots |-> Idle]
    /\ arrived = 0
    /\ worker = InstalledWorker
    /\ favs \in InitFavs
    /\ db = ClosedDb
    /\ clock = 1
    /\ ops = [o \in OpSlots |-> IdleOp]
    /\ log = <<>>

\* no handler of the worker and no favorites function is running
WorkerCalm == worker.pc = "idle" /\ worker.msg = "none"

StoreCalm == Running = {}

\* a Network-First request of the page, served by the worker in control
IndepFetch(i) ==
    /\ arrived < MaxArrivals
    /\ WorkerCalm
    /\ StoreCalm
    /\ Quiescent
    /\ FetchEvent(i, ReqApi)
    /\ arrived' = arrived + 1
    /\ UNCHANGED <<worker, storeVars>>

IndepFetchStep(i) ==
    /\ \/ \E out \in HydrateOutcomes : NetworkFirstFetched(i, out)
       \/ LimitRead(i)
       \/ LimitDelete(i)
    /\ UNCHANGED <<arrived, worker, storeVars>>

IndepWorkerStep ==
    /\ \/ Quiescent /\ WorkerCalm /\ StoreCalm /\ ActivateEvent
       \/ ActivateKeys
       \/ \E name \in worker.doomed : ActivateDelete(name)
       \/ ActivateClaim
       \/ ActivateDone
       \/ Quiescent /\ WorkerCalm /\ StoreCalm /\ Message("CLEAR_CACHE")
       \/ ClearKeys
       \/ \E name \in worker.mdoomed : ClearDelete(name)
       \/ ClearDone
    /\ UNCHANGED <<tasks, arrived, storeVars>>

\* a save, and the reads of the record stored in an earlier session
IndepCall(o) ==
    \/ Call(o, "saveFavorite", MealOne, MealOne.idMeal, "-", "-")
    \/ \E fn \in {"getFavorite", "isFavorite"} :
          Call(o, fn, NoMeal, MealTwo.idMeal, "-", "-")
    \/ Call(o, "getAllFavorites", NoMeal, <<>>, "date", "desc")
    \/ Call(o, "getFavoritesCount", NoMeal, <<>>, "-", "-")

IndepStoreStep ==
    /\ \E o \in OpSlots :
          (StoreCalm /\ WorkerCalm /\ IndepCall(o)) \/ OpStep(o)
    /\ UNCHANGED worker

NextIndep ==
    \/ IndepStoreStep
    \/ \E i \in Slots : IndepFetch(i) \/ IndepFetchStep(i)
    \/ \E i \in Slots : HydrateStep(i) /\ UNCHANGED worker
    \/ IndepWorkerStep

SpecIndep == InitIndep /\ [][NextIndep]_vars

\* A save and its hydration next to the activation of a worker that was
\* installed over the dynamic cache of the version before it, CLEAR_CACHE,
\* and Network-First requests of the saved meal's API URL.  As in SpecIndep
\* a request, a worker event or a save starts when the ones before have
\* finished; the hydration of the save may still be running.
OfflineStorage ==
    << Cache(STATIC_CACHE, Precached),
       Cache(StaleDynamic, <<[key |-> ReqApi.url, body |-> "old"]>>),
       Cache(DYNAMIC_CACHE, Fill(MAX_DYNAMIC_CACHE_SIZE)) >>

InitOffline ==
    /\ storage = OfflineStorage
    /\ tasks = [i \in Slots |-> Idle]
    /\ arrived = 0
    /\ worker = InstalledWorker
    /\ favs = {}
    /\ db = ClosedDb
    /\ clock = MaxClock
    /\ ops = [o \in OpSlots |-> IdleOp]
    /\ log = <<>>

OfflineFetch(i) ==
    /\ arrived <= MaxArrivals
    /\ WorkerCalm
    /\ StoreCalm
    /\ Quiescent
    /\ FetchEvent(i, ReqApi)
    /\ arrived' = arrived + 1
    /\ UNCHANGED <<worker, storeVars>>

OfflineStoreStep ==
    /\ \E o \in OpSlots :
          \/ /\ StoreCalm
             /\ WorkerCalm
             /\ Call(o, "saveFavorite", MealOne, MealOne.idMeal, "-", "-")
          \/ OpStep(o)
    /\ UNCHANGED worker

NextOffline ==
    \/ OfflineStoreStep
    \/ \E i \in Slots : OfflineFetch(i) \/ IndepFetchStep(i)
    \/ \E i \in Slots : HydrateStep(i) /\ UNCHANGED worker
    \/ IndepWorkerStep

SpecOffline == InitOffline /\ [][NextOffline]_vars

\* Concurrent favorites calls next to what invalidates the connection:
\* another context that asks for a higher version, and the browser ending
\* a connection
InvalidateStep(o) ==
    \/ RaceCall(o)
    \/ OpStep(o)
    \/ OpenRejected(o)
    \/ TxAborted(o)
    \/ Rejects(o)

NextInvalidate ==
    /\ \/ \E o \in OpSlots : InvalidateStep(o)
       \/ Blocking
       \/ OtherUpgrades
       \/ \E h \in OpenHandles : Terminated(h)
    /\ UNCHANGED worker

SpecInvalidate == InitRace /\ [][NextInvalidate]_vars

\* The dispatcher alone, on every request
NextRoute ==
    /\ arrived < MaxArrivals
    /\ \E request \in AllReqs : FetchEvent(1, request)
    /\ arrived' = arrived + 1
    /\ UNCHANGED <<worker, storeVars>>

SpecRoute == Init /\ [][NextRoute]_vars

\* ------------------------------------------------------------------------
\* Properties
\* ------------------------------------------------------------------------
CacheNames == {STATIC_CACHE, DYNAMIC_CACHE, IMAGE_CACHE}

\* the last n elements of a sequence
LastN(seq, n) ==
    IF Len(seq) <= n THEN seq ELSE SubSeq(seq, Len(seq) - n + 1, Len(seq))

\* a request arrives in slot i in this step and is given to `kind`
Arrives(i, kind) ==
    /\ arrived' = arrived + 1
    /\ Settled(tasks[i])
    /\ tasks'[i].kind = kind

\* key is stored in some named cache
Held(st, key) == \E n \in 1..Len(st) : HasKey(st[n].entries, key)

\* the bodies stored for key in the named caches
HeldBodies(st, key) ==
    UNION { {st[n].entries[e].body :
                e \in {d \in 1..Len(st[n].entries) : st[n].entries[d].key = key}} :
            n \in 1..Len(st) }

\* C1: when limitCacheSize runs after the put of its request has been stored,
\* with no other writer (SpecSolo), then on its completion the cache holds at
\* most max entries, and they are the max newest of the keys it found, in
\* the same order, the key just put being the newest.
C1_LimitKeepsNewest ==
    \A i \in Slots :
        LET t == tasks[i]
            keys == CacheKeys(Entries(storage, PutCache(t.kind))) IN
        (t.lim = "done" /\ t.putFirst) =>
            /\ Len(keys) <= LimMax(t.kind)
            /\ keys = LastN(t.keys0, LimMax(t.kind))
            /\ keys[Len(keys)] = t.req.url

\* C1 witness: a finished limitCacheSize that found two entries too many
C1_Witness ==
    \E i \in Slots :
        /\ tasks[i].lim = "done"
        /\ tasks[i].putFirst
        /\ Len(tasks[i].keys0) >= LimMax(tasks[i].kind) + 2

\* C2: whenever nothing is in flight, the dynamic cache holds at most 50
\* entries and the image cache at most 100.
C2_QuiescentWithinLimits ==
    Quiescent =>
        /\ Len(Entries(storage, DYNAMIC_CACHE)) <= MAX_DYNAMIC_CACHE_SIZE
        /\ Len(Entries(storage, IMAGE_CACHE)) <= MAX_IMAGE_CACHE_SIZE

\* C3: a Network-First request answered 2xx that found at most 50 entries,
\* with no other writer (SpecSolo): once its put and its limitCacheSize have
\* finished, the dynamic cache holds at most 50 entries.
C3_NetworkFirstEnforcesAfterStore ==
    \A i \in Slots :
        LET t == tasks[i] IN
        ( /\ t.kind = "NF"
          /\ t.net = "ok"
          /\ t.put = "stored"
          /\ t.lim = "done"
          /\ t.len0 <= MAX_DYNAMIC_CACHE_SIZE )
        => Len(Entries(storage, DYNAMIC_CACHE)) <= MAX_DYNAMIC_CACHE_SIZE

\* C4: a step changes a named cache in one of three ways only: not at all (a
\* match is such a step); by a put, which appends the key as the newest and,
\* when the key was present, leaves the size as it was; or by the eviction of
\* the oldest entry.  So no entry is evicted while an older one stays.
C4_EvictionIsInsertionOrder ==
    [][ \A c \in CacheNames :
          LET es == Entries(storage, c)
              es2 == Entries(storage', c) IN
          \/ es2 = es
          \/ /\ Len(es2) > 0
             /\ es2 = Append(CacheDelete(es, es2[Len(es2)].key), es2[Len(es2)])
             /\ HasKey(es, es2[Len(es2)].key) => Len(es2) = Len(es)
          \/ /\ Len(es) > 0
             /\ es2 = Tail(es) ]_vars

\* The URLs of the table by what the rules of the dispatcher ask: under
\* /api/; on the upstream image host with an images path; ending in a static
\* extension; of scheme http or https.
UnderApi == {1, 2, 18}

UpstreamImages == {3, 17, 19, 20}

StaticExtension == {2, 3, 4, 7, 10, 11, 12, 15, 16, 17, 19, 20}

HttpScheme == Urls \ {10}

Routed(request) ==
    IF request.url \in UnderApi THEN "NF"
    ELSE IF request.url \in UpstreamImages THEN "SWR"
    ELSE IF request.mode = "navigate" THEN "NAV"
    ELSE IF request.url \in StaticExtension THEN "CF"
    ELSE "NF"

Intercepted(request) == request.method = "GET" /\ request.url \in HttpScheme

\* C5: a GET request of scheme http(s) is given to the strategy of the first
\* rule it matches: /api/ -> Network-First, upstream image -> Stale-While-
\* Revalidate, navigation -> Navigation, static extension -> Cache-First,
\* else Network-First.
C5_FirstMatchingRule ==
    \A i \in Slots :
        (tasks[i].kind # "idle" /\ Intercepted(tasks[i].req)) =>
            tasks[i].kind = Routed(tasks[i].req)

\* C5 witness: an API request that is a navigation with a static extension
\* went to Network-First
C5_Witness ==
    \E i \in Slots :
        /\ tasks[i].req = Req("GET", 2, "navigate")
        /\ tasks[i].kind = "NF"

\* C6: the arrival of a request that is not GET, or not of scheme http(s),
\* starts no strategy, no fetch and no cache operation, answers nothing in
\* the requester's place and leaves the caches as they are.
C6_NotIntercepted ==
    [][ \A i \in Slots :
          ( /\ arrived' = arrived + 1
            /\ Settled(tasks[i])
            /\ tasks'[i].req # NoReq
            /\ ~Intercepted(tasks'[i].req) )
          => /\ storage' = storage
             /\ tasks'[i].kind = "PASS"
             /\ tasks'[i].pc = "done"
             /\ tasks'[i].resp.src = "browser"
             /\ tasks'[i].net = "none"
             /\ tasks'[i].cached = None
             /\ tasks'[i].put = "none"
             /\ tasks'[i].lim = "none" ]_vars

\* C6 witness: a POST to the API and a GET of an extension URL have arrived
C6_Witness ==
    \E i \in Slots :
        /\ tasks[i].req \in {Req("POST", 1, "cors"), Req("GET", 10, "no-cors")}
        /\ tasks[i].resp.src = "browser"

\* C7: Cache-First.  (a) When a cache holds the request, the call returns a
\* stored response for it and issues no fetch.  (b) On a miss answered 2xx
\* the caller gets that response and it is what the put stores in the static
\* cache.  (c) While the static cache holds the key, a Cache-First call for
\* it returns the stored body and issues no fetch.
C7_CacheFirst ==
    [][ \A i \in Slots :
          LET t == tasks[i]
              t2 == tasks'[i]
              key == t2.req.url IN
          /\ (Arrives(i, "CF") /\ Held(storage, key)) =>
                /\ t2.pc = "done"
                /\ t2.resp.src = "cache"
                /\ t2.resp.body \in HeldBodies(storage, key)
                /\ t2.net = "none"
          /\ (Arrives(i, "CF") /\ HasKey(Entries(storage, STATIC_CACHE), key)) =>
                /\ t2.resp.src = "cache"
                /\ HeldBodies(<<Cache(STATIC_CACHE, Entries(storage, STATIC_CACHE))>>, key)
                      = {t2.resp.body}
                /\ t2.net = "none"
          /\ (t.kind = "CF" /\ t.pc = "fetch" /\ t2.net = "ok") =>
                /\ t2.resp.src = "network"
                /\ t2.resp.status = 200
                /\ t2.resp.body = t2.body
                /\ t2.put = "pending"
          /\ (t.kind = "CF" /\ t.put = "pending" /\ t2.put = "stored") =>
                /\ t2.body = t.resp.body
                /\ HeldBodies(<<Cache(STATIC_CACHE, Entries(storage', STATIC_CACHE))>>, key)
                      = {t.resp.body} ]_vars

\* C7 witness: a Cache-First call is answered from the cache with what an
\* earlier Cache-First call fetched and stored
C7_Witness ==
    \E i \in Slots :
        /\ tasks[i].kind = "CF"
        /\ tasks[i].pc = "done"
        /\ tasks[i].net = "none"
        /\ tasks[i].resp.src = "cache"
        /\ tasks[i].resp.body \in Bodies

\* C8: Network-First whose fetch fails: the call completes with a response,
\* which is a stored response for the request when some cache holds it and
\* else status 503, Content-Type application/json and the Offline body; the
\* caches are not changed.
C8_NetworkFirstOffline ==
    [][ \A i \in Slots :
          LET t == tasks[i]
              t2 == tasks'[i] IN
          (t.kind = "NF" /\ t.pc = "fetch" /\ t2.net = "fail") =>
             /\ storage' = storage
             /\ t2.pc = "done"
             /\ t2.put = "none"
             /\ t2.lim = "none"
             /\ IF Held(storage, t.req.url)
                THEN /\ t2.resp.src = "cache"
                     /\ t2.resp.body \in HeldBodies(storage, t.req.url)
                ELSE /\ t2.resp.status = 503
                     /\ t2.resp.ctype = "application/json"
                     /\ t2.resp.body =
                          "{\"error\":\"Offline\",\"message\":\"No cached data available\"}"
        ]_vars

\* C8 witness: a Network-First call whose fetch failed has returned the
\* stored response
C8_Witness ==
    \E i \in Slots :
        /\ tasks[i].kind = "NF"
        /\ tasks[i].pc = "done"
        /\ tasks[i].net = "fail"
        /\ tasks[i].resp.src = "cache"

\* C9: Stale-While-Revalidate when the cache holds the request: the call
\* returns the stored response in the step in which it starts the fetch, so
\* while the fetch is in flight, and nothing the fetch does later changes
\* what the caller got.
C9_StaleServedAtOnce ==
    [][ \A i \in Slots :
          LET t == tasks[i]
              t2 == tasks'[i]
              held == HeldBodies(<<Cache(IMAGE_CACHE, Entries(storage, IMAGE_CACHE))>>,
                                 t2.req.url) IN
          /\ (Arrives(i, "SWR") /\ held # {}) =>
                /\ t2.resp.src = "cache"
                /\ held = {t2.resp.body}
                /\ t2.net = "pending"
          /\ (t.kind = "SWR" /\ t.cached # None /\ ~Settled(t)) =>
                /\ t.resp.src = "cache"
                /\ t2.resp = t.resp ]_vars

\* C9 witness: the stored response has been returned and the fetch is still
\* in flight
C9_Witness ==
    \E i \in Slots :
        /\ tasks[i].kind = "SWR"
        /\ tasks[i].net = "pending"
        /\ tasks[i].resp.src = "cache"

\* C10: Stale-While-Revalidate has always launched a fetch; when the fetch
\* was answered 2xx and the put and the limitCacheSize it started have
\* finished, with no other writer (SpecSolo), the image cache holds the fresh
\* copy of the key and at most 100 entries.
C10_RevalidateStoresThenEnforces ==
    \A i \in Slots :
        LET t == tasks[i] IN
        /\ t.kind = "SWR" => t.net # "none"
        /\ (t.kind = "SWR" /\ t.net = "ok" /\ t.put = "stored" /\ t.lim = "done") =>
              /\ CacheMatch(Entries(storage, IMAGE_CACHE), t.req.url) = t.body
              /\ Len(Entries(storage, IMAGE_CACHE)) <= MAX_IMAGE_CACHE_SIZE

\* C11: a Stale-While-Revalidate request that finds no cached entry gets
\* nothing until its fetch settles and then gets the network's response; when
\* that fetch fails the strategy does not resolve with any value of its own:
\* the requester is left with the network's failure.
ResolvedSources == {"network", "cache", "synthetic", "null"}

C11_RevalidateMissPropagatesFailure ==
    \A i \in Slots :
        LET t == tasks[i] IN
        (t.kind = "SWR" /\ t.cached = None) =>
            /\ t.net = "pending" => t.resp = NoResp
            /\ t.net = "ok" => t.resp = NetOk(t.body)
            /\ t.net = "notok" => t.resp = NetNotOk
            /\ t.net = "fail" => t.resp.src \notin ResolvedSources

\* C13: when a Cache-First request missed the cache and its fetch fails, the
\* requester gets status 503 with the plain-text body 'Offline'; no cache is
\* looked up again and no cache is modified.
C13_CacheFirstOffline ==
    [][\A i \in Slots :
          (/\ tasks[i].kind = "CF"
           /\ tasks[i].pc = "fetch"
           /\ tasks[i].cached = None
           /\ tasks'[i].net = "fail") =>
              /\ tasks'[i].pc = "done"
              /\ tasks'[i].resp.status = 503
              /\ tasks'[i].resp.body = "Offline"
              /\ tasks'[i].resp.ctype = "text/plain;charset=UTF-8"
              /\ tasks'[i].resp.src = "synthetic"
              /\ tasks'[i].put = "none"
              /\ tasks'[i].lim = "none"
              /\ storage' = storage]_vars

\* a Cache-First request got the 503 although another request stored its URL
\* while its fetch was in flight
C13_Witness ==
    \E i \in Slots :
        /\ tasks[i].kind = "CF"
        /\ tasks[i].net = "fail"
        /\ tasks[i].resp = OfflineText
        /\ Held(storage, tasks[i].req.url)

\* C12: when the fetch of a navigation fails, the strategy looks up the exact
\* URL in all caches, then the site root '/', then '/offline.html', each only
\* after the one before missed, and answers with the first hit; when all
\* three miss it answers 503 with Content-Type text/html.  Every step ends in
\* a response or in the next lookup, never in a failure of the strategy, and
\* no cache is changed.
NavFallbackStep(i, key, goesOn) ==
    /\ storage' = storage
    /\ IF Held(storage, key)
       THEN /\ tasks'[i].pc = "done"
            /\ tasks'[i].resp.src = "cache"
            /\ tasks'[i].resp.status = 200
            /\ tasks'[i].resp.body \in HeldBodies(storage, key)
       ELSE /\ tasks'[i].pc = goesOn
            /\ goesOn # "done" => tasks'[i].resp = NoResp
            /\ goesOn = "done" =>
                  /\ tasks'[i].resp.status = 503
                  /\ tasks'[i].resp.ctype = "text/html"
                  /\ tasks'[i].resp.src = "synthetic"

StaleNames == {"recipe-app-static-v0", "recipe-app-images-v0"}

Surviving(st) == SelectSeq(st, LAMBDA c : c.name \notin StaleNames)

C14_ActivationDeletesStaleOnly ==
    [][(worker.phase = "activating" /\ worker'.phase = "activating") =>
          /\ (worker.pc = "keys" /\ worker'.pc # "keys") =>
                /\ storage' = storage
                /\ worker'.removed = CachesKeys(storage) \cap StaleNames
          /\ worker'.doomed # worker.doomed /\ worker.pc = "deleting" =>
                /\ \E name \in StaleNames :
                       /\ worker'.doomed = worker.doomed \ {name}
                       /\ ~HasCache(storage', name)
                /\ Surviving(storage') = Surviving(storage)
          /\ (worker.pc = "deleting" /\ worker'.pc = "settled") =>
                /\ storage' = storage
                /\ CachesKeys(storage) \cap StaleNames = {}
                /\ worker'.claimed]_vars

\* activation is over: both stale caches are gone, and the current dynamic
\* cache, the cache of other code and the cache named 'recipe-app' are there
\* with the entries they had
C14_Witness ==
    /\ worker.phase = "activated"
    /\ worker.removed = StaleNames
    /\ worker.cleared = {}
    /\ CachesKeys(storage) \cap StaleNames = {}
    /\ \A k \in {2, 3, 5} : \E n \in 1..Len(storage) : storage[n] = OldCaches[k]

\* C15: the install step always ends in 'installed': a failure of
\* caches.open or of cache.addAll goes to the catch, behind the catch the
\* promise given to waitUntil is fulfilled, never rejected, and the host
\* then moves the worker to 'installed'.
C15_InstallAlwaysCompletes ==
    [][worker.phase = "installing" =>
          /\ worker'.outcome # "rejected"
          /\ worker'.phase \in {"installing", "installed"}
          /\ (worker.pc \in {"open", "addAll"} /\ storage' = storage) =>
                worker'.pc = "catch"
          /\ worker.pc = "catch" =>
                /\ worker'.outcome = "resolved"
                /\ worker'.pc = "settled"
          /\ worker.pc = "settled" => worker'.phase = "installed"]_vars

\* installed although the precache failed: the static cache is missing or
\* empty
C15_Witness ==
    /\ worker.phase = "installed"
    /\ Entries(storage, STATIC_CACHE) = <<>>

\* C16: whenever the install handler has finished, with or without a
\* successful precache, skip-waiting has been signalled.
C16_SkipWaitingOnEveryInstall ==
    (worker.phase = "installing" /\ worker.pc = "settled") => worker.skipWaiting

\* C17: a message changes no cache by itself; SKIP_WAITING signals
\* skip-waiting and nothing else, CLEAR_CACHE starts the deletion of all
\* caches, any other message changes nothing; and when the deletion of
\* CLEAR_CACHE has completed, no named cache exists.
Received(type) ==
    [worker EXCEPT !.msgs = @ + 1, !.last = type]

C17_ControlChannel ==
    [][/\ worker'.msgs # worker.msgs =>
            /\ storage' = storage
            /\ worker'.last = "SKIP_WAITING" =>
                  worker' = [Received("SKIP_WAITING") EXCEPT !.skipWaiting = TRUE]
            /\ worker'.last = "CLEAR_CACHE" =>
                  worker' = [Received("CLEAR_CACHE") EXCEPT !.msg = "keys"]
            /\ worker'.last \notin {"SKIP_WAITING", "CLEAR_CACHE"} =>
                  worker' = Received(worker'.last)
       /\ (worker.msg = "deleting" /\ worker'.msg = "none") =>
            storage' = <<>>]_vars

\* a CLEAR_CACHE has completed that deleted the current static cache, a stale
\* cache and a cache of other code, and no cache exists
C17_Witness ==
    /\ worker.last = "CLEAR_CACHE"
    /\ worker.msg = "none"
    /\ {STATIC_CACHE, StaleStatic, ForeignCache} \subseteq worker.cleared
    /\ storage = <<>>

\* C19: a save stores a record that has every field of the input with the
\* input's value and a savedAt besides, as the only record of its ID, with a
\* savedAt not below the one stored for that ID before; every other record
\* stays as it was; and a get of the ID that follows the save returns
\* exactly that record.
RecordsOf(fv, id) == {r \in fv : r.idMeal = id}

SavedFrom(rec, meal, at) ==
    /\ DOMAIN rec = (DOMAIN meal) \cup {"savedAt"}
    /\ \A f \in (DOMAIN meal) \ {"savedAt"} : rec[f] = meal[f]
    /\ rec.savedAt = at

C20_RemoveAbsentIsNoOp ==
    [][\A o \in OpSlots :
          (/\ ops[o].sub = "removeFavorite"
           /\ ops[o].pc = "tx"
           /\ ops'[o].pc = "ret") =>
             /\ ops'[o].result = "ok"
             /\ favs' \ RecordsOf(favs', ops[o].id) = favs \ RecordsOf(favs, ops[o].id)
             /\ RecordsOf(favs', ops[o].id) = {}
             /\ RecordsOf(favs, ops[o].id) = {} =>
                   /\ favs' = favs
                   /\ Cardinality(favs') = Cardinality(favs)]_vars

\* the same ID was removed twice, the second time from a store that did not
\* hold it, and the record of the other ID is still there
C20_Witness ==
    /\ Len(log) = 2
    /\ log[1].fn = "removeFavorite"
    /\ log[2].fn = "removeFavorite"
    /\ log[1].id = MealOne.idMeal
    /\ log[2].id = MealOne.idMeal
    /\ log[2].result = "void"
    /\ favs = {withSavedAt(MealTwo, 0)}

\* C18: the favorites store and the caches do not touch each other.  A step
\* that loses a cache or a cache entry (eviction, activation cleanup,
\* CLEAR_CACHE, a replaced entry) or that changes the worker leaves every
\* favorite record as it is; the records change only in the step of a save,
\* remove or clear, which changes no cache; and what get, isFavorite, list
\* and count return is determined by the records alone, whatever the caches
\* hold.
CacheLoss ==
    \E n \in 1..Len(storage) :
        \/ ~HasCache(storage', storage[n].name)
        \/ \E e \in 1..Len(storage[n].entries) :
              ~HasKey(Entries(storage', storage[n].name), storage[n].entries[e].key)

StoreRequest(o, subs) ==
    /\ ops[o].pc = "tx"
    /\ ops'[o].pc = "ret"
    /\ ops[o].sub \in subs

C18_StoreIndependentOfCaches ==
    [][/\ (CacheLoss \/ worker' # worker) => favs' = favs
       /\ favs' # favs =>
            /\ \E o \in OpSlots :
                  StoreRequest(o, {"saveFavorite", "removeFavorite",
                                   "clearAllFavorites"})
            /\ storage' = storage
       /\ \A o \in OpSlots :
            /\ StoreRequest(o, {"getFavorite"}) =>
                  IF RecordsOf(favs, ops[o].id) = {}
                  THEN ops'[o].result = NoRecord
                  ELSE ops'[o].result \in RecordsOf(favs, ops[o].id)
            /\ StoreRequest(o, {"isFavorite"}) =>
                  ops'[o].result = (RecordsOf(favs, ops[o].id) # {})
            /\ StoreRequest(o, {"getFavoritesCount"}) =>
                  ops'[o].result = Cardinality(favs)
            /\ StoreRequest(o, {"getAllFavorites"}) =>
                  /\ Len(ops'[o].result) = Cardinality(favs)
                  /\ {ops'[o].result[k] : k \in 1..Len(ops'[o].result)} = favs]_vars

\* after an eviction, the activation cleanup and a CLEAR_CACHE no cache is
\* left, and a get returns the record saved in an earlier session
C18_Witness ==
    /\ storage = <<>>
    /\ worker.removed # {}
    /\ worker.cleared # {}
    /\ \E i \in Slots :
          /\ tasks[i].kind = "NF"
          /\ tasks[i].lim = "done"
          /\ Len(tasks[i].keys0) > MAX_DYNAMIC_CACHE_SIZE
    /\ \E o \in OpSlots :
          /\ ops[o].sub = "getFavorite"
          /\ ops[o].pc = "ret"
          /\ ops[o].result = withSavedAt(MealTwo, 0)

\* C21: with one caller at a time, the save or remove of a toggle flips the
\* presence of its ID, changing the count by exactly one and no record of
\* another ID; the toggle returns the presence it left; and of two toggles
\* of one ID that return one after the other, the first returns true and
\* the second false exactly when the ID is absent after them, as it was
\* before them.
Present(fv, id) == RecordsOf(fv, id) # {}

ToggleWrites(o) ==
    /\ ops[o].fn = "toggleFavorite"
    /\ StoreRequest(o, {"saveFavorite", "removeFavorite"})

ToggleReturns(o) ==
    /\ ops[o].fn = "toggleFavorite"
    /\ ops[o].pc = "ret"
    /\ ops'[o].pc = "idle"

C21_ToggleTwiceRestores ==
    [][\A o \in OpSlots :
          /\ ToggleWrites(o) =>
                /\ Present(favs', ops[o].id) = ~Present(favs, ops[o].id)
                /\ Cardinality(RecordsOf(favs', ops[o].id)) <= 1
                /\ favs' \ RecordsOf(favs', ops[o].id)
                      = favs \ RecordsOf(favs, ops[o].id)
                /\ Cardinality(favs') =
                      IF Present(favs, ops[o].id) THEN Cardinality(favs) - 1
                      ELSE Cardinality(favs) + 1
          /\ ToggleReturns(o) =>
                /\ log'[Len(log')].fn = "toggleFavorite"
                /\ log'[Len(log')].result = Present(favs', ops[o].id)
                /\ (/\ Len(log') >= 2
                    /\ log'[Len(log') - 1].fn = "toggleFavorite"
                    /\ log'[Len(log') - 1].id = ops[o].id) =>
                      /\ log'[Len(log') - 1].result = ~log'[Len(log')].result
                      /\ log'[Len(log') - 1].result = ~Present(favs', ops[o].id)]_vars

\* an ID that was absent was toggled twice: true, then false, and the store
\* holds what it held before
C21_Witness ==
    /\ Len(log) = 2
    /\ log[1].fn = "toggleFavorite"
    /\ log[2].fn = "toggleFavorite"
    /\ log[1].id = MealOne.idMeal
    /\ log[2].id = MealOne.idMeal
    /\ log[1].result = TRUE
    /\ log[2].result = FALSE
    /\ Running = {}
    /\ favs = {withSavedAt(MealTwo, 0)}

\* C22: getAllFavorites returns every stored record exactly once, in the
\* order of the requested key (savedAt for 'date', strMeal for 'name'),
\* ascending for 'asc' and descending for 'desc', records of equal key in
\* the order of their IDs (reversed for 'desc'); the order in which the
\* records were saved has no part in it.
keyLess(a, b, sortBy) ==
    IF sortBy = "date" THEN a.savedAt < b.savedAt
    ELSE strLess(a.strMeal, b.strMeal)

Ordered(a, b, sortBy) ==
    \/ keyLess(a, b, sortBy)
    \/ /\ ~keyLess(b, a, sortBy)
       /\ strLess(a.idMeal, b.idMeal)

C22_ListSortedComplete ==
    [][\A o \in OpSlots :
          StoreRequest(o, {"getAllFavorites"}) =>
             LET list == ops'[o].result IN
             /\ Len(list) = Cardinality(favs)
             /\ {list[k] : k \in 1..Len(list)} = favs
             /\ \A k \in 1..(Len(list) - 1) :
                   IF ops[o].order = "desc"
                   THEN Ordered(list[k + 1], list[k], ops[o].sortBy)
                   ELSE Ordered(list[k], list[k + 1], ops[o].sortBy)]_vars

\* B was saved before A, and the list by name, ascending, is A, B
C22_Witness ==
    /\ Len(log) = 2
    /\ log[1].fn = "saveFavorite"
    /\ log[1].meal = MealTwo
    /\ log[2].fn = "getAllFavorites"
    /\ log[2].sortBy = "name"
    /\ log[2].order = "asc"
    /\ Len(log[2].result) = 2
    /\ log[2].result[1].strMeal = <<"A">>
    /\ log[2].result[2].strMeal = <<"B">>
    /\ log[2].result[1].savedAt >= log[2].result[2].savedAt

\* C23: saveFavorite returns, with its record stored, in the very step that
\* starts the hydration and so before any hydrator call has finished; no
\* step of the hydration, failed or not, changes a record, a running call or
\* what a call returned; and when a call of the hydration has failed (the
\* cache did not open, the put was rejected, the image fetch failed or was
\* not ok), the save that returned last is still a success and its record
\* is in the store.
HydrationStarts(o) ==
    /\ ops[o].sub = "saveFavorite"
    /\ ops[o].pc = "ret"
    /\ ops'[o] # ops[o]

HydrationFailed(t) ==
    /\ t.kind \in {"hydImg", "hydApi"}
    /\ \/ t.put \in {"failed", "unopened"}
       \/ t.net \in {"fail", "notok"}

LastSaved ==
    /\ Running = {}
    /\ log # <<>>
    /\ log[Len(log)].fn = "saveFavorite"

C23_SaveOutlivesHydration ==
    [][/\ \A o \in OpSlots :
            HydrationStarts(o) =>
               /\ ops'[o].pc = "idle"
               /\ log'[Len(log')].fn = ops[o].fn
               /\ log'[Len(log')].fn = "saveFavorite" => log'[Len(log')].result = "void"
               /\ \E rec \in favs' : SavedFrom(rec, ops[o].meal, ops[o].stamp)
               /\ \E i \in Slots :
                     /\ tasks'[i].kind \in {"hydImg", "hydApi"}
                     /\ ~Settled(tasks'[i])
       /\ (tasks' # tasks /\ ops' = ops) => (favs' = favs /\ log' = log)
       /\ (LastSaved /\ \E i \in Slots : HydrationFailed(tasks[i])) =>
             /\ log[Len(log)].result = "void"
             /\ \E rec \in favs :
                   SavedFrom(rec, log[Len(log)].meal, log[Len(log)].stamp)]_vars

\* a save returned and every call of its hydration failed, the last one at
\* its put: the caches hold nothing of the meal and the record is stored
C23_Witness ==
    /\ LastSaved
    /\ Quiescent
    /\ log[Len(log)].meal = MealOne
    /\ \E i \in Slots : tasks[i].kind = "hydApi" /\ tasks[i].put = "failed"
    /\ CachesMatch(storage, MealOne.strMealThumb) = None
    /\ CachesMatch(storage, previewUrl(MealOne.strMealThumb)) = None
    /\ CachesMatch(storage, apiUrl(MealOne.idMeal)) = None
    /\ \E rec \in favs : SavedFrom(rec, MealOne, log[Len(log)].stamp)

\* C24: in Cache-First, Network-First and Navigation, a request whose fetch
\* was answered ok is answered with that live response, whether or not the
\* cache could be opened, written or trimmed.
LiveAnswer(t) ==
    (/\ t.kind \in {"CF", "NF", "NAV"}
     /\ t.net = "ok"
     /\ t.pc = "done") => t.resp = NetOk(t.body)

C24_CacheFailureKeepsLiveResponse ==
    \A i \in Slots : LiveAnswer(tasks[i])

\* C25: an apiFetch call whose fetch the worker answered resolves with data
\* or rejects with an ApiError, and the ApiError has isOffline true exactly
\* when the worker's own fetch failed at the transport.
C25_OfflineFlagEndToEnd ==
    \A i \in Slots :
        (tasks[i].kind = "NF" /\ tasks[i].api # NoCall) =>
           /\ tasks[i].api.throws \in {"none", "ApiError"}
           /\ tasks[i].api.throws = "ApiError" =>
                 (tasks[i].api.isOffline = (tasks[i].net = "fail"))

\* C26: whatever its fetch settled with, apiFetch resolves with data or
\* rejects with an ApiError; for a response that is not 2xx it rejects with
\* an ApiError of that response's status and isOffline false.
C26_NonOkIsTypedFailure ==
    \A i \in Slots :
        tasks[i].api # NoCall =>
           /\ tasks[i].api.throws \in {"none", "ApiError"}
           /\ (tasks[i].resp # NoResp /\ ~responseOk(tasks[i].resp.status)) =>
                 /\ tasks[i].api.throws = "ApiError"
                 /\ tasks[i].api.status = tasks[i].resp.status
                 /\ ~tasks[i].api.isOffline

\* C27: while toggles, saves and removes of one ID interleave, the store
\* holds at most one record of each ID in every state, and every request a
\* call makes on the store succeeds: a save, a remove and each half of a
\* toggle reach their return with the result of a request that did not
\* fail, and a toggle returns a boolean.
C27_RaceKeepsOneRecord ==
    /\ \A id \in MealIds : Cardinality(RecordsOf(favs, id)) <= 1
    /\ \A o \in OpSlots :
          ops[o].pc = "ret" =>
             IF ops[o].sub = "isFavorite" THEN ops[o].result \in BOOLEAN
             ELSE ops[o].result = "ok"
    /\ \A k \in 1..Len(log) :
          IF log[k].fn = "toggleFavorite" THEN log[k].result \in BOOLEAN
          ELSE log[k].result = "void"

\* two toggles of an absent ID ran at once: both returned true, and the
\* store holds one record of the ID
C27_Witness ==
    /\ Len(log) = 2
    /\ log[1].fn = "toggleFavorite"
    /\ log[2].fn = "toggleFavorite"
    /\ log[1].result = TRUE
    /\ log[2].result = TRUE
    /\ log[1].meal # log[2].meal
    /\ Cardinality(RecordsOf(favs, MealOne.idMeal)) = 1

\* C28: while the stored database is of a higher version than the code's, or
\* needs an upgrade that another context blocks, dbInstance is unset, no
\* favorites function holds a handle or is at a request on the store, and
\* no step changes a record; a call made against the higher version rejects.
C28_ConflictLeavesStoreUnopened ==
    [][/\ db.conflict # "none" =>
            /\ db.instance = 0
            /\ db'.instance = 0
            /\ favs' = favs
            /\ \A o \in OpSlots :
                  /\ ops'[o].handle = 0
                  /\ ops'[o].pc \notin {"tx", "ret"}
       /\ \A o \in OpSlots :
            (ops[o].pc = "opening" /\ ops'[o].pc = "thrown") =>
               /\ db.conflict = "newer"
               /\ db' = db
       /\ \A o \in OpSlots :
            (ops[o].pc = "thrown" /\ ops'[o].pc = "idle") =>
               /\ db.conflict = "newer"
               /\ log'[Len(log')].fn = ops[o].fn
               /\ log'[Len(log')].result = "rejected"]_vars

\* a save against records of a higher version was rejected: the handle is
\* unset and the records are the ones stored before
C28_Witness ==
    /\ db.conflict = "newer"
    /\ db.instance = 0
    /\ log # <<>>
    /\ log[Len(log)].fn = "saveFavorite"
    /\ log[Len(log)].result = "rejected"
    /\ favs = {withSavedAt(MealTwo, 0)}

\* C29: every limitCacheSize that was started comes to its end, whatever
\* the cache held and whichever puts land while it runs; it deletes only
\* after having read the key list, one entry for each read, and reads the
\* list again after each deletion.
LimitRunning(i) == tasks[i].lim \in {"first", "read", "delete"}

LimitIteration(i) ==
    LET c == PutCache(tasks[i].kind) IN
    /\ (tasks'[i].lim = "delete" /\ tasks[i].lim # "delete") =>
          /\ tasks[i].lim \in {"first", "read"}
          /\ Len(Entries(storage', c)) > tasks[i].maxItems
          /\ storage' = CachesOpen(storage, c)
    /\ (tasks[i].lim = "delete" /\ tasks'[i].lim # "delete") =>
          /\ tasks'[i].lim = "read"
          /\ Len(Entries(storage', c)) >= Len(Entries(storage, c)) - 1
          /\ Len(Entries(storage', c)) <= Len(Entries(storage, c))

C29_LimitTerminates ==
    /\ [][\A i \in Slots : LimitIteration(i)]_vars
    /\ \A i \in Slots : LimitRunning(i) ~> (tasks[i].lim = "done")

\* a limitCacheSize called with limit 0 has ended on an empty cache, after
\* deleting the entries it found first and the one a put stored while it ran
C29_Witness ==
    \E i \in Slots :
        /\ tasks[i].kind = "limit"
        /\ tasks[i].lim = "done"
        /\ tasks[i].maxItems = 0
        /\ Len(tasks[i].keys0) >= 2
        /\ Entries(storage, DYNAMIC_CACHE) = <<>>
        /\ \E j \in Slots \ {i} :
              /\ tasks[j].kind = "hydApi"
              /\ tasks[j].put = "stored"
              /\ \A k \in 1..Len(tasks[i].keys0) :
                    tasks[i].keys0[k] # tasks[j].req.url

\* C30: a limitCacheSize ends only at a read of the key list that shows at
\* most max entries, whatever puts and other limitCacheSize runs took place
\* in between; a deletion is decided only on a key of the list just read,
\* and is made on a cache that is not empty.
LimitEnds(i) ==
    /\ tasks[i].lim \in {"first", "read"}
    /\ tasks'[i].lim = "done"

Removes(i) ==
    /\ tasks[i].lim = "delete"
    /\ tasks'[i].lim = "read"
    /\ Len(Entries(storage', PutCache(tasks[i].kind)))
          < Len(Entries(storage, PutCache(tasks[i].kind)))

C31_EvictsOldestWhileOverLimit ==
    [][\A i \in Slots :
          Removes(i) =>
             LET es == Entries(storage, PutCache(tasks[i].kind)) IN
             /\ Len(es) > tasks[i].maxItems
             /\ tasks[i].victim = es[1].key]_vars

\* C32: two toggles of one ID that run at once can both see the ID absent:
\* both then save and return true, and the ID is present; and they can
\* both see it present: both then remove and return false, and the ID is
\* absent.  A toggle returns true exactly when what it saw was "absent" and
\* it saved, false exactly when it saw "present" and removed.
TogglesOf(id) ==
    {o \in OpSlots : ops[o].fn = "toggleFavorite" /\ ops[o].id = id}

BothReturned(value) ==
    /\ Running = {}
    /\ Len(log) = 2
    /\ \A k \in 1..2 :
          /\ log[k].fn = "toggleFavorite"
          /\ log[k].id = MealOne.idMeal
          /\ log[k].result = value

C32_ToggleRaceOutcomes ==
    /\ [][\A o \in TogglesOf(MealOne.idMeal) :
             /\ (ops[o].sub = "isFavorite" /\ ops[o].pc = "tx") =>
                   (ops'[o].pc = "ret" =>
                      ops'[o].result = Present(favs, ops[o].id))
             /\ (ops[o].sub = "isFavorite" /\ ops[o].pc = "ret"
                   /\ ops'[o] # ops[o]) =>
                   ops'[o].sub = IF ops[o].result THEN "removeFavorite"
                                 ELSE "saveFavorite"
             /\ ToggleWrites(o) =>
                   Present(favs', ops[o].id) = (ops[o].sub = "saveFavorite")
             /\ ToggleReturns(o) =>
                   log'[Len(log')].result = (ops[o].sub = "saveFavorite")]_vars
    /\ [](BothReturned(TRUE) => Present(favs, MealOne.idMeal))
    /\ [](BothReturned(FALSE) => ~Present(favs, MealOne.idMeal))

\* the first two toggles of the absent ID have both returned true, and the
\* next two have both seen the ID present: both are at their remove, one
\* has made it and the ID is absent
C32_Witness ==
    /\ arrived = 4
    /\ Len(log) = 2
    /\ \A k \in 1..2 :
          /\ log[k].fn = "toggleFavorite"
          /\ log[k].result = TRUE
    /\ TogglesOf(MealOne.idMeal) = {1, 2}
    /\ ops[1].sub = "removeFavorite"
    /\ ops[1].pc = "ret"
    /\ ops[2].sub = "removeFavorite"
    /\ ops[2].pc = "tx"
    /\ ~Present(favs, MealOne.idMeal)

\* C33: every entry a caching strategy writes into a cache is the 2xx
\* response of the network to the request of that strategy, stored under
\* the key of that request in the cache of that strategy; a response that
\* is not 2xx starts no put and changes no cache.  Cache-First,
\* Network-First and Navigation return it as it is, and so does
\* Stale-While-Revalidate on a miss; on a hit Stale-While-Revalidate has
\* returned the cached response.
StrategyKinds == {"CF", "NF", "SWR", "NAV"}

NewEntries(c) ==
    LET before == Entries(storage, c)
        after == Entries(storage', c) IN
    IF after = before THEN {}
    ELSE {after[k] : k \in 1..Len(after)} \ {before[k] : k \in 1..Len(before)}

WritesOnlyOk ==
    /\ \A c \in {STATIC_CACHE, DYNAMIC_CACHE, IMAGE_CACHE} :
          \A e \in NewEntries(c) :
             \E i \in Slots :
                /\ tasks[i].put = "pending"
                /\ tasks'[i].put = "stored"
                /\ c = PutCache(tasks[i].kind)
                /\ e.key = tasks[i].req.url
                /\ e.body = tasks[i].body
                /\ tasks[i].kind \in StrategyKinds =>
                      /\ tasks[i].net = "ok"
                      /\ tasks[i].body \in Bodies
    /\ \A i \in Slots :
          (tasks'[i].kind \in StrategyKinds /\ tasks'[i].put = "pending") =>
             tasks'[i].net = "ok"

NotOkSettles(i) ==
    /\ tasks[i].kind \in StrategyKinds
    /\ tasks[i].pc = "fetch"
    /\ tasks'[i].net = "notok"

C33_StrategiesStoreOnlyOk ==
    [][/\ WritesOnlyOk
       /\ \A i \in Slots :
             NotOkSettles(i) =>
                /\ storage' = storage
                /\ tasks'[i].put = "none"
                /\ tasks'[i].lim = "none"
                /\ tasks'[i].resp =
                      IF tasks[i].kind = "SWR" /\ tasks[i].cached # None
                      THEN FromCache(tasks[i].cached)
                      ELSE NetNotOk]_vars

\* the statement as it was made: every strategy returns the response that
\* is not 2xx as it is
C33_NotOkReturnedAsIs ==
    [][/\ WritesOnlyOk
       /\ \A i \in Slots :
             NotOkSettles(i) =>
                /\ storage' = storage
                /\ tasks'[i].put = "none"
                /\ tasks'[i].lim = "none"
                /\ tasks'[i].resp = NetNotOk]_vars

\* a Stale-While-Revalidate request found its image in the cache and the
\* network answered with a status that is not ok: the requester has the
\* cached response and the entry is as it was
C33_Witness ==
    \E i \in Slots :
        /\ tasks[i].kind = "SWR"
        /\ tasks[i].net = "notok"
        /\ tasks[i].cached \in Bodies
        /\ tasks[i].resp = FromCache(tasks[i].cached)
        /\ tasks[i].put = "none"
        /\ CacheMatch(Entries(storage, IMAGE_CACHE), tasks[i].req.url)
              = tasks[i].cached

\* C34: the lifecycle of the worker moves only from installing to
\* installed, from installed to activating and from activating to active,
\* and clients.claim is called only in the activate step, when every
\* caches.delete of a stale cache has taken effect: none is pending and no
\* stale cache is left.
LifecycleOrder ==
    { <<"parsed", "installing">>, <<"installing", "installed">>,
      <<"installed", "activating">>, <<"activating", "activated">> }

ClaimIssued == ~worker.claimed /\ worker'.claimed

C34_LifecycleOrderAndClaim ==
    [][/\ worker'.phase # worker.phase =>
             <<worker.phase, worker'.phase>> \in LifecycleOrder
       /\ ClaimIssued =>
             /\ worker.phase = "activating"
             /\ worker'.phase = "activating"
             /\ worker.doomed = {}
             /\ worker.removed \cap CachesKeys(storage) = {}
             /\ CachesKeys(storage') \cap StaleNames = {}
       /\ (worker.phase = "activating" /\ worker'.phase = "activated") =>
             (worker.claimed <=> worker.outcome = "resolved")]_vars

\* the worker is active and has claimed the pages, after two stale caches
\* were deleted in its activate step
C34_Witness ==
    /\ worker.phase = "activated"
    /\ worker.claimed
    /\ worker.outcome = "resolved"
    /\ Cardinality(worker.removed) = 2
    /\ worker.removed \cap CachesKeys(storage) = {}

\* C35: a query whose attempt failed with an error of isOffline = true is
\* not run again, and a query is run again at most twice: it makes at most
\* three attempts.
Retried(i) ==
    /\ tasks[i].query = "fetching"
    /\ tasks[i].pc = "done"
    /\ tasks'[i].pc = "fetch"

C35_RetryPolicy ==
    [][\A i \in Slots :
          /\ Retried(i) =>
                /\ ~(tasks[i].api.throws = "ApiError" /\ tasks[i].api.isOffline)
                /\ tasks[i].api.throws # "none"
                /\ tasks'[i].failureCount = tasks[i].failureCount + 1
                /\ tasks'[i].failureCount <= 2
          /\ (tasks[i].query = "fetching" /\ ~Retried(i)) =>
                tasks'[i].failureCount = tasks[i].failureCount
          /\ (tasks[i].query = "fetching" /\ tasks'[i].query = "error") =>
                \/ tasks[i].api.isOffline
                \/ tasks[i].failureCount = 2]_vars

\* a query was run again after a failure that was not offline, its second
\* attempt failed offline, and it has ended in error without a third
C35_Witness ==
    \E i \in Slots :
        /\ tasks[i].query = "error"
        /\ tasks[i].failureCount = 1
        /\ tasks[i].api = ApiError("Network error - you may be offline", 0, TRUE)

\* C36: cacheImage and cacheImages never reject: a fetch that fails, a put
\* that is rejected and a cache that cannot be opened are caught and
\* logged.  A URL that is in the image cache is not fetched and its entry
\* stays as it is; only responses that are ok are stored; in cacheImages
\* the failure for one URL leaves the work for the other URLs alone, and
\* no URL is taken twice in one call.
ImageKinds == {"hydImg", "hydImgs"}

ImageFailed(t) ==
    /\ t.kind \in ImageKinds
    /\ t.net = "fail" \/ t.put \in {"failed", "unopened"}

ImagesSettle ==
    \A i \in Slots :
        tasks[i].kind \in ImageKinds =>
           /\ tasks[i].pc \in {"fetch", "put", "done"}
           /\ tasks[i].cached # None =>
                 /\ tasks[i].net = "none"
                 /\ tasks[i].put = "none"
                 /\ tasks[i].pc = "done"
           /\ tasks[i].put \in {"pending", "stored"} => tasks[i].net = "ok"
           /\ \A j \in Slots \ {i} :
                 (tasks[i].kind = "hydImgs" /\ tasks[j].kind = "hydImgs") =>
                    tasks[i].req.url # tasks[j].req.url

ImagesStep ==
    /\ \A e \in NewEntries(IMAGE_CACHE) :
          \E i \in Slots :
             /\ tasks[i].kind \in ImageKinds
             /\ tasks[i].net = "ok"
             /\ tasks[i].put = "pending"
             /\ tasks'[i].put = "stored"
             /\ e = [key |-> tasks[i].req.url, body |-> tasks[i].body]
    /\ \A i \in Slots :
          (tasks'[i].kind \in ImageKinds /\ tasks'[i].cached # None
             /\ tasks[i] # tasks'[i]) =>
             Entries(storage', IMAGE_CACHE) = Entries(storage, IMAGE_CACHE)
    /\ \A i \in Slots :
          (ImageFailed(tasks'[i]) /\ tasks[i].kind = "hydImgs"
             /\ tasks[i].pc \in {"fetch", "put"}) =>
             \A j \in Slots \ {i} : tasks'[j] = tasks[j]

C36_ImageCachingCaughtAndLogged ==
    /\ [](ImagesSettle)
    /\ [][ImagesStep]_vars
    /\ [](\A i \in Slots : ImageFailed(tasks[i]) => tasks[i].logged = "warn")

\* the dynamic cache holds the response the hydrator stored for MealOne
HydratedMeal ==
    CacheMatch(Entries(storage, DYNAMIC_CACHE), apiUrl(MealOne.idMeal)) = "data"

HydratorNamesCurrent ==
    /\ HydratorCaches.dynamic = DYNAMIC_CACHE
    /\ HydratorCaches.images = IMAGE_CACHE
    /\ ~isStaleCache(HydratorCaches.dynamic)
    /\ ~isStaleCache(HydratorCaches.images)

\* the hydrated entry leaves the cache only in a step of CLEAR_CACHE or of
\* a Network-First request (its eviction, or its put of the same key)
HydratedOutlives ==
    (HydratedMeal /\ ~HydratedMeal')
        => \/ worker.msg # "none"
           \/ \E i \in Slots : tasks[i].kind = "NF" /\ tasks'[i] # tasks[i]

\* a Network-First request of the meal's URL whose fetch fails while the
\* hydrated entry is in the cache of the activated worker
OfflineHit(i) ==
    /\ Fetching(i, "NF")
    /\ tasks[i].req.url = apiUrl(MealOne.idMeal)
    /\ tasks'[i].net = "fail"
    /\ HydratedMeal
    /\ worker.phase = "activated"

\* C37: the hydrator's cache names are the worker's current ones, no step of
\* an activation removes the hydrated /api/meal/{id} entry (it leaves only by
\* CLEAR_CACHE or a Network-First step), and a Network-First GET of that URL
\* whose fetch fails while the entry is there returns the hydrated response,
\* not the synthetic 503
C37_HydratedEntryServesOffline ==
    /\ [](HydratorNamesCurrent)
    /\ [][HydratedOutlives]_vars
    /\ [][\A i \in Slots :
            OfflineHit(i) => tasks'[i].resp = FromCache("data")]_vars

C37_Witness ==
    /\ worker.phase = "activated"
    /\ StaleDynamic \in worker.removed
    /\ HydratedMeal
    /\ \E i \in Slots :
          /\ tasks[i].kind = "NF"
          /\ tasks[i].net = "fail"
          /\ tasks[i].resp = FromCache("data")

\* the reference model of the store: the set of IDs that are present
IdsOf(fv) == {r.idMeal : r \in fv}

OthersKept(id) ==
    {r \in favs : r.idMeal # id} = {r \in favs' : r.idMeal # id}

\* the step of the reference model that the request of a call stands for
ReferenceStep(op) ==
    CASE op.sub = "saveFavorite" ->
            /\ IdsOf(favs') = IdsOf(favs) \cup {op.id}
            /\ OthersKept(op.id)
            /\ op.fn = "toggleFavorite" => op.id \notin IdsOf(favs)
      [] op.sub = "removeFavorite" ->
            /\ IdsOf(favs') = IdsOf(favs) \ {op.id}
            /\ OthersKept(op.id)
            /\ op.fn = "toggleFavorite" => op.id \in IdsOf(favs)
      [] op.sub = "clearAllFavorites" -> IdsOf(favs') = {}
      [] OTHER -> favs' = favs

\* what a call returns, against the reference model at its return
ReferenceReturn(op) ==
    CASE op.fn = "getFavoritesCount" -> op.result = Cardinality(IdsOf(favs))
      [] op.fn = "getFavorite" ->
            op.id \notin IdsOf(favs) => op.result = NoRecord
      [] op.fn = "isFavorite" -> op.result = (op.id \in IdsOf(favs))
      [] op.fn = "toggleFavorite" ->
            Returned(op) = (op.id \in IdsOf(favs))
      [] op.fn = "clearAllFavorites" -> dbCount(favs) = 0
      [] OTHER -> TRUE

StoreRefines ==
    /\ \A o \in OpSlots :
          /\ (ops[o].pc = "tx" /\ ops'[o].pc = "ret") => ReferenceStep(ops[o])
          /\ (ops[o].pc = "ret" /\ ops'[o].pc = "idle") => ReferenceReturn(ops[o])
    /\ (\A o \in OpSlots : ~(ops[o].pc = "tx" /\ ops'[o].pc = "ret"))
          => favs' = favs

Touches(e, id) ==
    \/ e.fn = "clearAllFavorites"
    \/ e.fn \in {"saveFavorite", "removeFavorite", "toggleFavorite"} /\ e.id = id

TurnsOn(e) ==
    \/ e.fn = "saveFavorite"
    \/ e.fn = "toggleFavorite" /\ e.result = TRUE

LastTouch(id) ==
    CHOOSE k \in 1..Len(log) :
        /\ Touches(log[k], id)
        /\ \A j \in (k + 1)..Len(log) : ~Touches(log[j], id)

\* when every call has returned, an ID some returned call was about is
\* present iff the last of these calls was a save or a toggle that turned
\* it on; each present ID has one record
ReferenceSet ==
    /\ Cardinality(favs) = Cardinality(IdsOf(favs))
    /\ Running = {} =>
          \A id \in MealIds :
             (\E k \in 1..Len(log) : Touches(log[k], id))
                => (Present(favs, id) <=> TurnsOn(log[LastTouch(id)]))

\* C38: with the favorites functions called one after the other, the store
\* follows the reference set model: a save adds its ID, a remove takes its
\* ID away, a toggle flips its ID and returns the new membership, a clear
\* leaves nothing, no call changes the record of another ID, count returns
\* the number of present IDs, get returns no record for an absent ID, and an
\* ID is present iff the last call about it turned it on
C38_StoreRefinesSetModel ==
    /\ [][StoreRefines]_vars
    /\ [](ReferenceSet)

C38_Witness ==
    /\ Running = {}
    /\ Len(log) = 2
    /\ log[1].fn = "toggleFavorite"
    /\ log[1].id = MealOne.idMeal
    /\ log[1].result = TRUE
    /\ log[2].fn = "getFavoritesCount"
    /\ log[2].result = 2
    /\ IdsOf(favs) = MealIds

\* C39: of favorites functions that run together from a state with no
\* handle, one opens the database and all take the handle it got; the
\* module-level handle is unset or an open connection
C39_OpenedOnceSharedHandle ==
    /\ db.opened <= 1
    /\ \A o, q \in OpSlots :
          (ops[o].handle # 0 /\ ops[q].handle # 0)
             => ops[o].handle = ops[q].handle
    /\ db.instance = 0 \/ db.instance \in OpenHandles

\* C40: no function has a request on a connection that ended, and no
\* function rejects: after the blocking or the terminated callback each
\* function gets a new connection and succeeds
C40_NoOperationOnClosedHandle ==
    \A o \in OpSlots :
       /\ ops[o].pc = "tx" => ops[o].handle \in OpenHandles \cup db.closed
       /\ ops[o].pc # "thrown"
====
